---- MODULE Spec2Model ----
(***************************************************************************)
(* p9aout2elf: conversion of a Plan 9 a.out image to an ELF image.         *)
(*                                                                         *)
(* The model follows src/src/main.rs: main() (convert), aout_to_elf,       *)
(* parse_aout_symbols / parse_sym, aout_syms_to_elf and ElfHeader::new.    *)
(*                                                                         *)
(* Number representation.  TLC integers are 32-bit signed, so a Rust u32   *)
(* is a pair <<hi, lo>> of 16-bit limbs and a u64 / usize (64-bit host)    *)
(* is a tuple <<l3, l2, l1, l0>> of 16-bit limbs, most significant first.  *)
(* Every arithmetic operator returns the wrapped value together with an    *)
(* overflow flag; a build with overflow checks (debug profile) panics on   *)
(* the flag, a build without them (release profile) keeps the wrapped      *)
(* value.  Bytes are naturals 0..255; a buffer is a sequence of bytes.     *)
(* Structures are serialized as the little-endian host lays them out;      *)
(* the native-endian a.out magic is read little-endian accordingly.        *)
(***************************************************************************)
EXTENDS Integers, Sequences, FiniteSets, TLC

----------------------------------------------------------------------------
(* Fixed-width arithmetic *)

W == 256 * 256

u32_of(n) == <<(n \div W) % W, n % W>>

u64_of(n) == <<0, 0, (n \div W) % W, n % W>>

u32_as_u64(a) == <<0, 0, a[1], a[2]>>

u64_as_u32(a) == <<a[3], a[4]>>

add_u32(a, b) ==
    LET lo == a[2] + b[2]
        hi == a[1] + b[1] + (lo \div W)
    IN  [v |-> <<hi % W, lo % W>>, ovf |-> hi >= W]

sub_u32(a, b) ==
    LET lo == a[2] - b[2]
        hi == a[1] - b[1] - (IF lo < 0 THEN 1 ELSE 0)
    IN  [v |-> <<(hi + W) % W, (lo + W) % W>>, ovf |-> hi < 0]

add_u64(a, b) ==
    LET l0 == a[4] + b[4]
        l1 == a[3] + b[3] + (l0 \div W)
        l2 == a[2] + b[2] + (l1 \div W)
        l3 == a[1] + b[1] + (l2 \div W)
    IN  [v |-> <<l3 % W, l2 % W, l1 % W, l0 % W>>, ovf |-> l3 >= W]

RECURSIVE LimbsLess(_, _, _)
LimbsLess(a, b, i) ==
    IF i > Len(a) THEN FALSE
    ELSE IF a[i] # b[i] THEN a[i] < b[i]
    ELSE LimbsLess(a, b, i + 1)

lt(a, b) == LimbsLess(a, b, 1)

le(a, b) == a = b \/ lt(a, b)

----------------------------------------------------------------------------
(* Byte encodings *)

\* A byte-order slip: the field is read least significant byte first.
read_le_u32(b, at) == <<b[at + 3] * 256 + b[at + 2], b[at + 1] * 256 + b[at]>>

read_be_u32(b, at) == <<b[at] * 256 + b[at + 1], b[at + 2] * 256 + b[at + 3]>>

read_native_u32(b, at) == <<b[at + 3] * 256 + b[at + 2], b[at + 1] * 256 + b[at]>>

u8_bytes(n) == <<n % 256>>

u16_bytes(n) == <<n % 256, (n \div 256) % 256>>

u32_bytes(a) == u16_bytes(a[2]) \o u16_bytes(a[1])

u64_bytes(a) == u16_bytes(a[4]) \o u16_bytes(a[3]) \o u16_bytes(a[2]) \o u16_bytes(a[1])

Zeros(n) == [i \in 1..n |-> 0]

RECURSIVE Concat(_)
Concat(ss) == IF ss = <<>> THEN <<>> ELSE Head(ss) \o Concat(Tail(ss))

SliceFrom(b, from) == SubSeq(b, from + 1, Len(b))

Slice(b, from, to) == SubSeq(b, from + 1, to)

----------------------------------------------------------------------------
(* Program constants *)

AOUT_HEADER_SIZE == 32

ELF32_HEADER_SIZE == 52
ELF64_HEADER_SIZE == 64

ELF32_PROGRAM_HEADER_SIZE == 32
ELF64_PROGRAM_HEADER_SIZE == 56

ELF32_SECTION_HEADER_SIZE == 40
ELF64_SECTION_HEADER_SIZE == 64

ELF32_SYMBOL_TABLE_ENTRY_SIZE == 16
ELF64_SYMBOL_TABLE_ENTRY_SIZE == 24

PAD_BASIC_SIZE == 4
PAD_EXTRA_SIZE == 8
PAD_SIZE == PAD_BASIC_SIZE + PAD_EXTRA_SIZE

SYM_HEADER_SIZE == 9

SYM_STRING_TABLE_INDEX == 4
SH_STRING_TABLE_INDEX == 5

ELF_MAGIC == <<127, 69, 76, 70>>

MAGIC_AMD64 == <<38794, 0>>
MAGIC_RISCV64 == <<6030, 0>>

VIRTUAL_BASE_AMD64 == <<0, 0, 32768, 0>>
VIRTUAL_BASE_RISCV64 == <<0, 0, 0, 0>>

ElfMachine_Amd64 == 62
ElfMachine_RiscV == 243

ElfClass_Elf32 == 1
ElfClass_Elf64 == 2

ElfDataEncoding_LittleEndian == 1
ElfOsAbi_None == 0
ElfType_Executable == 2

ElfProgramType_Null == 0
ElfProgramType_Load == 1

ElfSectionType_Null == 0
ElfSectionType_ProgBits == 1
ElfSectionType_SymbolTable == 2
ElfSectionType_SymbolStringTable == 3

SYM_TEXT == 84
SYM_STATIC_TEXT == 116

SYM_LOCAL == 0
SYM_FUNCTION == 2

PH_FLAG_READ == 4
PH_FLAG_WRITE == 2
PH_FLAG_EXEC == 1

SH_FLAG_WRITE == 1
SH_FLAG_ALLOC == 2
SH_FLAG_EXEC == 4

----------------------------------------------------------------------------
(* a.out header *)

\* Aout::read_from_prefix: needs size_of::<Aout>() bytes; magic is a native
\* u32, the other seven fields are big-endian U32.
Aout_read_from_prefix(d) ==
    IF Len(d) < AOUT_HEADER_SIZE
    THEN [ok |-> FALSE]
    ELSE [ok |-> TRUE,
          magic |-> read_native_u32(d, 1),
          text_size |-> read_be_u32(d, 5),
          data_size |-> read_be_u32(d, 9),
          bss_size |-> read_be_u32(d, 13),
          symbol_table_size |-> read_be_u32(d, 17),
          entry_point |-> read_be_u32(d, 21),
          sp_size |-> read_be_u32(d, 25),
          pc_size |-> read_be_u32(d, 29)]

\* aout_mach_to_elf: the fallthrough arm is todo!(), a panic.
aout_mach_to_elf(aout) ==
    IF aout.magic = MAGIC_AMD64 THEN [panic |-> FALSE, machine |-> ElfMachine_Amd64]
    ELSE IF aout.magic = MAGIC_RISCV64 THEN [panic |-> FALSE, machine |-> ElfMachine_RiscV]
    ELSE [panic |-> TRUE, machine |-> 0]

is_64bit(machine) == machine = ElfMachine_RiscV

virtual_base_of(machine) ==
    IF machine = ElfMachine_Amd64 THEN VIRTUAL_BASE_AMD64 ELSE VIRTUAL_BASE_RISCV64

\* no alignment at all
align_4k_identity(v) == [v |-> v, ovf |-> FALSE]

\* align_4k: ((v - 1) / 4096 + 1) * 4096 in u32 arithmetic.
align_4k(v) ==
    LET m == sub_u32(v, <<0, 1>>)
        q == m.v[1] * 16 + (m.v[2] \div 4096) + 1
        hi == q \div 16
    IN  [v |-> <<hi % W, (q % 16) * 4096>>, ovf |-> m.ovf \/ hi >= W]

\* the offset of the carried bytes without the pad block
main_offset_of_without_pad(is64) ==
    IF is64
    THEN ELF64_HEADER_SIZE + 3 * ELF64_PROGRAM_HEADER_SIZE + 6 * ELF64_SECTION_HEADER_SIZE
    ELSE ELF32_HEADER_SIZE + 3 * ELF32_PROGRAM_HEADER_SIZE + 6 * ELF32_SECTION_HEADER_SIZE

main_offset_of(is64) ==
    IF is64
    THEN ELF64_HEADER_SIZE + 3 * ELF64_PROGRAM_HEADER_SIZE
         + 6 * ELF64_SECTION_HEADER_SIZE + PAD_SIZE
    ELSE ELF32_HEADER_SIZE + 3 * ELF32_PROGRAM_HEADER_SIZE
         + 6 * ELF32_SECTION_HEADER_SIZE + PAD_SIZE

----------------------------------------------------------------------------
(* a.out symbols *)

\* CStr::from_bytes_until_nul: the bytes before the first NUL, or an error.
FirstNul(s) ==
    IF \E i \in 1..Len(s) : s[i] = 0
    THEN CHOOSE i \in 1..Len(s) : s[i] = 0 /\ \A j \in 1..(i - 1) : s[j] # 0
    ELSE 0

CStr_from_bytes_until_nul(s) ==
    IF FirstNul(s) = 0 THEN [ok |-> FALSE, bytes |-> <<>>]
    ELSE [ok |-> TRUE, bytes |-> SubSeq(s, 1, FirstNul(s) - 1)]

\* CStr::to_str: UTF-8 validation (well-formed byte sequences, RFC 3629).
\* Bytes 0x80..0xBF are continuation bytes and never start a sequence, so
\* the text is well formed iff it does not start with a continuation byte
\* and every other byte leads a complete sequence that is followed by a
\* non-continuation byte or the end.
IsContByte(b) == b >= 128 /\ b <= 191

Utf8SeqLen(b) ==
    IF b < 128 THEN 1
    ELSE IF b >= 194 /\ b <= 223 THEN 2
    ELSE IF b >= 224 /\ b <= 239 THEN 3
    ELSE IF b >= 240 /\ b <= 244 THEN 4
    ELSE 0

Utf8SecondOk(b, c) ==
    IF b = 224 THEN c >= 160 /\ c <= 191
    ELSE IF b = 237 THEN c >= 128 /\ c <= 159
    ELSE IF b = 240 THEN c >= 144 /\ c <= 191
    ELSE IF b = 244 THEN c >= 128 /\ c <= 143
    ELSE IsContByte(c)

Utf8WellFormedAt(s, i) ==
    LET n == Utf8SeqLen(s[i]) IN
        /\ n > 0
        /\ i + n - 1 <= Len(s)
        /\ n >= 2 => Utf8SecondOk(s[i], s[i + 1])
        /\ \A k \in 2..(n - 1) : IsContByte(s[i + k])
        /\ i + n <= Len(s) => ~IsContByte(s[i + n])

IsUtf8(s) ==
    /\ Len(s) > 0 => ~IsContByte(s[1])
    /\ \A i \in 1..Len(s) : ~IsContByte(s[i]) => Utf8WellFormedAt(s, i)

to_str(bytes) == IF IsUtf8(bytes) THEN [ok |-> TRUE, str |-> bytes]
                 ELSE [ok |-> FALSE, str |-> <<>>]

\* "[noname]"
NONAME == <<91, 110, 111, 110, 97, 109, 101, 93>>

Min(a, b) == IF a < b THEN a ELSE b

\* parse_sym: header from the prefix (panic!() when fewer than 9 bytes), then
\* the name from a window of at most 0x80 bytes; a window without a NUL gives
\* the empty name (unwrap_or(c"")), a non-UTF-8 name gives "[noname]".
parse_sym(st) ==
    IF Len(st) < SYM_HEADER_SIZE
    THEN [panic |-> TRUE]
    ELSE LET max_len == Min(128, Len(st) - SYM_HEADER_SIZE)
             s == Slice(st, SYM_HEADER_SIZE, SYM_HEADER_SIZE + max_len)
             c == CStr_from_bytes_until_nul(s)
             namex == IF c.ok THEN c.bytes ELSE <<>>
             u == to_str(namex)
         IN  [panic |-> FALSE,
              header |-> [spacer |-> SubSeq(st, 1, 4),
                          value |-> read_be_u32(st, 5),
                          sym_type |-> st[9]],
              name |-> IF u.ok THEN u.str ELSE NONAME]

\* AoutSymbol::len
AoutSymbol_len(sym) == SYM_HEADER_SIZE + Len(sym.name) + 1

\* aout_symbol_type: lookup on the type byte with the top bit cleared.
SymbolTypeTable ==
    (84 :> "TextSegment") @@ (116 :> "StaticTextSegment")
    @@ (76 :> "LeafFunction") @@ (108 :> "StaticLeafFunction")
    @@ (68 :> "DataSegment") @@ (100 :> "StaticDataSegment")
    @@ (98 :> "StaticBssSegment") @@ (66 :> "BssSegment")
    @@ (97 :> "AutoVariable") @@ (112 :> "FunctionParam")
    @@ (109 :> "FrameSymbol") @@ (102 :> "SourceFileNameComp")
    @@ (122 :> "SourceFileName") @@ (90 :> "SourceFileOffset")
    @@ (101 :> "E") @@ (103 :> "G") @@ (73 :> "I") @@ (111 :> "O")
    @@ (83 :> "S") @@ (117 :> "U") @@ (118 :> "V") @@ (119 :> "W")
    @@ (95 :> "____X") @@ (48 :> "Zero") @@ (123 :> "Curly")

aout_symbol_type(sym) ==
    LET t == sym.header.sym_type % 128
    IN  IF t \in DOMAIN SymbolTypeTable THEN SymbolTypeTable[t] ELSE "Unknown"

----------------------------------------------------------------------------
(* aout_syms_to_elf *)

\* a filter on the raw type byte, the top bit not cleared
text_syms_exact_type(aout_syms) ==
    SelectSeq(aout_syms, LAMBDA sy : sy.header.sym_type \in {SYM_TEXT, SYM_STATIC_TEXT})

\* The filter: text-segment and static-text-segment symbols only.
text_syms(aout_syms) ==
    SelectSeq(aout_syms, LAMBDA sy :
        aout_symbol_type(sy) = "TextSegment" \/ aout_symbol_type(sy) = "StaticTextSegment")

\* Vec::sort_by_key(|e| e.header.value): a stable sort, ascending by value.
\* An unstable variant: a symbol is inserted before the symbols of equal
\* address instead of after them.
insert_by_key_before_equal(sorted, x) ==
    LET p == Cardinality({i \in 1..Len(sorted) : lt(sorted[i].header.value, x.header.value)})
    IN  SubSeq(sorted, 1, p) \o <<x>> \o SubSeq(sorted, p + 1, Len(sorted))

insert_by_key(sorted, x) ==
    LET p == Cardinality({i \in 1..Len(sorted) : le(sorted[i].header.value, x.header.value)})
    IN  SubSeq(sorted, 1, p) \o <<x>> \o SubSeq(sorted, p + 1, Len(sorted))

RECURSIVE sort_by_key(_)
sort_by_key(t) ==
    IF t = <<>> THEN <<>>
    ELSE insert_by_key(sort_by_key(SubSeq(t, 1, Len(t) - 1)), t[Len(t)])

widen(is64, a) == IF is64 THEN u32_as_u64(a) ELSE a

\* The undefined symbol pushed first.
undefined_symbol(is64) ==
    [is64 |-> is64, name_offset |-> <<0, 0>>, value |-> widen(is64, <<0, 0>>),
     size |-> widen(is64, <<0, 0>>), info |-> 0, other |-> 0, section_index |-> 0]

\* A string table that starts empty, without the leading zero byte.
empty_sym_str_tab == <<>>

\* The string table starts as the single byte [0u8].
initial_sym_str_tab == <<0>>

\* The cursor into the string table starts after that byte.
initial_name_offset == <<0, 1>>

\* an iteration that does not count the name's NUL in the running offset
window_body_nul_not_counted(acc, curr, next, is64) ==
    LET size == sub_u32(next.header.value, curr.header.value)
        e == [is64 |-> is64, name_offset |-> acc.name_offset,
              value |-> widen(is64, curr.header.value),
              size |-> widen(is64, size.v),
              info |-> SYM_LOCAL + SYM_FUNCTION, other |-> 0, section_index |-> 1]
        no == add_u32(acc.name_offset, u32_of(Len(curr.name)))
    IN  [elf_sym_tab |-> Append(acc.elf_sym_tab, e),
         sym_str_tab |-> acc.sym_str_tab \o curr.name \o <<0>>,
         name_offset |-> no.v,
         ovf |-> acc.ovf \/ size.ovf \/ no.ovf]

\* One iteration of `for s in t_syms.windows(2)` on the window (t[i], t[i+1]).
window_body(acc, curr, next, is64) ==
    LET size == sub_u32(next.header.value, curr.header.value)
        e == [is64 |-> is64, name_offset |-> acc.name_offset,
              value |-> widen(is64, curr.header.value),
              size |-> widen(is64, size.v),
              info |-> SYM_LOCAL + SYM_FUNCTION, other |-> 0, section_index |-> 1]
        no == add_u32(acc.name_offset, u32_of(Len(curr.name) + 1))
    IN  [elf_sym_tab |-> Append(acc.elf_sym_tab, e),
         sym_str_tab |-> acc.sym_str_tab \o curr.name \o <<0>>,
         name_offset |-> no.v,
         ovf |-> acc.ovf \/ size.ovf \/ no.ovf]

\* An off-by-one variant of the loop: the last symbol is emitted too, paired
\* with itself.
RECURSIVE windows_loop_with_last(_, _, _, _)
windows_loop_with_last(acc, t, i, is64) ==
    IF i > Len(t) THEN acc
    ELSE windows_loop_with_last(window_body(acc, t[i], t[Min(i + 1, Len(t))], is64), t, i + 1, is64)

RECURSIVE windows_loop(_, _, _, _)
windows_loop(acc, t, i, is64) ==
    IF i + 1 > Len(t) THEN acc
    ELSE windows_loop(window_body(acc, t[i], t[i + 1], is64), t, i + 1, is64)

aout_syms_to_elf(aout_syms, is64) ==
    LET t_syms == sort_by_key(text_syms(aout_syms))
        acc0 == [elf_sym_tab |-> <<undefined_symbol(is64)>>,
                 sym_str_tab |-> initial_sym_str_tab,
                 name_offset |-> initial_name_offset,
                 ovf |-> FALSE]
    IN  windows_loop(acc0, t_syms, 1, is64)

ElfSymbolTableEntry_as_bytes(e) ==
    IF e.is64
    THEN u32_bytes(e.name_offset) \o u8_bytes(e.info) \o u8_bytes(e.other)
         \o u16_bytes(e.section_index) \o u64_bytes(e.value) \o u64_bytes(e.size)
    ELSE u32_bytes(e.name_offset) \o u32_bytes(e.value) \o u32_bytes(e.size)
         \o u8_bytes(e.info) \o u8_bytes(e.other) \o u16_bytes(e.section_index)

----------------------------------------------------------------------------
(* Program headers *)

ProgramHeader(is64, ty, offset, va, pa, fsz, msz, flags, align) ==
    [is64 |-> is64, program_type |-> ty, offset |-> offset, virtual_addr |-> va,
     physical_addr |-> pa, file_size |-> fsz, memory_size |-> msz,
     flags |-> flags, align |-> align]

\* A copy/paste slip: the text header takes the data size as its file size.
program_headers_64_text_filesz(main_offset, ts, ds, ss, entry, data_load_addr, virtual_base) ==
    LET va_t == add_u64(virtual_base, u32_as_u64(entry))
        off_d32 == add_u32(main_offset, ts)
        off_d == u32_as_u64(off_d32.v)
        va_d == add_u64(virtual_base, u32_as_u64(data_load_addr))
        off_s == add_u64(off_d, u32_as_u64(ds))
    IN  [phs |-> <<
            ProgramHeader(TRUE, ElfProgramType_Load, u32_as_u64(main_offset), va_t.v,
                          u32_as_u64(entry), u32_as_u64(ds), u32_as_u64(ts),
                          PH_FLAG_READ + PH_FLAG_EXEC, 4096),
            ProgramHeader(TRUE, ElfProgramType_Load, off_d, va_d.v,
                          u32_as_u64(data_load_addr), u32_as_u64(ds), u32_as_u64(ds),
                          PH_FLAG_READ + PH_FLAG_WRITE, 4096),
            ProgramHeader(TRUE, ElfProgramType_Null, off_s.v, u64_of(0), u64_of(0),
                          u32_as_u64(ss), u32_as_u64(ss), PH_FLAG_READ, 4)>>,
         ovf |-> va_t.ovf \/ off_d32.ovf \/ va_d.ovf \/ off_s.ovf]

\* The 64-bit branch of the program-header block.
program_headers_64(main_offset, ts, ds, ss, entry, data_load_addr, virtual_base) ==
    LET va_t == add_u64(virtual_base, u32_as_u64(entry))
        off_d32 == add_u32(main_offset, ts)
        off_d == u32_as_u64(off_d32.v)
        va_d == add_u64(virtual_base, u32_as_u64(data_load_addr))
        off_s == add_u64(off_d, u32_as_u64(ds))
    IN  [phs |-> <<
            ProgramHeader(TRUE, ElfProgramType_Load, u32_as_u64(main_offset), va_t.v,
                          u32_as_u64(entry), u32_as_u64(ts), u32_as_u64(ts),
                          PH_FLAG_READ + PH_FLAG_EXEC, 4096),
            ProgramHeader(TRUE, ElfProgramType_Load, off_d, va_d.v,
                          u32_as_u64(data_load_addr), u32_as_u64(ds), u32_as_u64(ds),
                          PH_FLAG_READ + PH_FLAG_WRITE, 4096),
            ProgramHeader(TRUE, ElfProgramType_Null, off_s.v, u64_of(0), u64_of(0),
                          u32_as_u64(ss), u32_as_u64(ss), PH_FLAG_READ, 4)>>,
         ovf |-> va_t.ovf \/ off_d32.ovf \/ va_d.ovf \/ off_s.ovf]

\* The 32-bit branch of the program-header block.
program_headers_32(main_offset, ts, ds, ss, entry, data_load_addr, virtual_base) ==
    LET va_t == add_u32(u64_as_u32(virtual_base), entry)
        off_d == add_u32(main_offset, ts)
        va_d == add_u32(u64_as_u32(virtual_base), data_load_addr)
        off_s == add_u32(off_d.v, ds)
    IN  [phs |-> <<
            ProgramHeader(FALSE, ElfProgramType_Load, main_offset, va_t.v, entry, ts, ts,
                          PH_FLAG_READ + PH_FLAG_EXEC, 4096),
            ProgramHeader(FALSE, ElfProgramType_Load, off_d.v, va_d.v, data_load_addr,
                          ds, ds, PH_FLAG_READ + PH_FLAG_WRITE, 4096),
            ProgramHeader(FALSE, ElfProgramType_Null, off_s.v, u32_of(0), u32_of(0),
                          ss, ss, PH_FLAG_READ, 4)>>,
         ovf |-> va_t.ovf \/ off_d.ovf \/ va_d.ovf \/ off_s.ovf]

ElfProgramHeader_as_bytes(h) ==
    IF h.is64
    THEN u32_bytes(u32_of(h.program_type)) \o u32_bytes(u32_of(h.flags))
         \o u64_bytes(h.offset) \o u64_bytes(h.virtual_addr) \o u64_bytes(h.physical_addr)
         \o u64_bytes(h.file_size) \o u64_bytes(h.memory_size) \o u64_bytes(u64_of(h.align))
    ELSE u32_bytes(u32_of(h.program_type)) \o u32_bytes(h.offset)
         \o u32_bytes(h.virtual_addr) \o u32_bytes(h.physical_addr)
         \o u32_bytes(h.file_size) \o u32_bytes(h.memory_size)
         \o u32_bytes(u32_of(h.flags)) \o u32_bytes(u32_of(h.align))

----------------------------------------------------------------------------
(* Section headers *)

\* "\0.text\0.data\0.symtab\0.strtab\0.shstrtab\0"
sh_str_tab ==
    Concat(<< <<0>>,
              <<46, 116, 101, 120, 116, 0>>,
              <<46, 100, 97, 116, 97, 0>>,
              <<46, 115, 121, 109, 116, 97, 98, 0>>,
              <<46, 115, 116, 114, 116, 97, 98, 0>>,
              <<46, 115, 104, 115, 116, 114, 116, 97, 98, 0>> >>)

elf_sym_tab_entry_size(is64) ==
    IF is64 THEN ELF64_SYMBOL_TABLE_ENTRY_SIZE ELSE ELF32_SYMBOL_TABLE_ENTRY_SIZE

SectionHeader(is64, name, ty, flags, addr, offset, size, link, info, addr_align, entry_size) ==
    [is64 |-> is64, name |-> name, section_type |-> ty, flags |-> flags, addr |-> addr,
     offset |-> offset, size |-> size, link |-> link, info |-> info,
     addr_align |-> addr_align, entry_size |-> entry_size]

\* The 64-bit branch of the section-header block.
section_headers_64(main_offset, ts, ds, entry, data_load_addr, virtual_base, data_len, sym_count, str_len) ==
    LET esz == elf_sym_tab_entry_size(TRUE)
        a_t == add_u64(virtual_base, u32_as_u64(entry))
        o_t == u32_as_u64(main_offset)
        o_d == add_u64(o_t, u32_as_u64(ts))
        a_d == add_u64(virtual_base, u32_as_u64(data_load_addr))
        z_y == u64_of(sym_count * esz)
        o_y == add_u64(u32_as_u64(main_offset), u64_of(data_len))
        o_s == add_u64(o_y.v, z_y)
        z_s == u64_of(str_len)
        o_h == add_u64(o_s.v, z_s)
        z_h == u64_of(Len(sh_str_tab))
    IN  [shs |-> <<
            SectionHeader(TRUE, 0, ElfSectionType_Null, 0, u64_of(0), u64_of(0), u64_of(0),
                          0, 0, 0, 0),
            SectionHeader(TRUE, 1, ElfSectionType_ProgBits, SH_FLAG_ALLOC + SH_FLAG_EXEC,
                          a_t.v, o_t, u32_as_u64(ts), 1, 0, 64, 0),
            SectionHeader(TRUE, 7, ElfSectionType_ProgBits, SH_FLAG_ALLOC + SH_FLAG_WRITE,
                          a_d.v, o_d.v, u32_as_u64(ds), 1, 0, 32, 0),
            SectionHeader(TRUE, 13, ElfSectionType_SymbolTable, 0, u64_of(0), o_y.v, z_y,
                          SYM_STRING_TABLE_INDEX, sym_count, 8, esz),
            SectionHeader(TRUE, 21, ElfSectionType_SymbolStringTable, 0, u64_of(0), o_s.v,
                          z_s, 0, 0, 1, 0),
            SectionHeader(TRUE, 29, ElfSectionType_SymbolStringTable, 0, u64_of(0), o_h.v,
                          z_h, 0, 0, 1, 0)>>,
         ovf |-> a_t.ovf \/ o_d.ovf \/ a_d.ovf \/ o_y.ovf \/ o_s.ovf \/ o_h.ovf]

\* A slip in the running offset: .strtab is placed at .symtab's offset, the
\* symbol table's size not added.
section_headers_32_strtab_at_symtab(main_offset, ts, ds, entry, data_load_addr, virtual_base, data_len, sym_count, str_len) ==
    LET esz == elf_sym_tab_entry_size(FALSE)
        a_t == add_u32(u64_as_u32(virtual_base), entry)
        o_t == main_offset
        o_d == add_u32(o_t, ts)
        a_d == add_u32(u64_as_u32(virtual_base), data_load_addr)
        z_y == u32_of(sym_count * esz)
        o_y == add_u32(main_offset, u32_of(data_len))
        o_s == o_y
        z_s == u32_of(str_len)
        o_h == add_u32(o_s.v, z_s)
        z_h == u32_of(Len(sh_str_tab))
    IN  [shs |-> <<
            SectionHeader(FALSE, 0, ElfSectionType_Null, 0, u32_of(0), u32_of(0), u32_of(0),
                          0, 0, 0, 0),
            SectionHeader(FALSE, 1, ElfSectionType_ProgBits, SH_FLAG_ALLOC + SH_FLAG_EXEC,
                          a_t.v, o_t, ts, 1, 0, 64, 0),
            SectionHeader(FALSE, 7, ElfSectionType_ProgBits, SH_FLAG_ALLOC + SH_FLAG_WRITE,
                          a_d.v, o_d.v, ds, 1, 0, 32, 0),
            SectionHeader(FALSE, 13, ElfSectionType_SymbolTable, 0, u32_of(0), o_y.v, z_y,
                          SYM_STRING_TABLE_INDEX, sym_count, 8, esz),
            SectionHeader(FALSE, 21, ElfSectionType_SymbolStringTable, 0, u32_of(0), o_s.v,
                          z_s, 0, 0, 1, 0),
            SectionHeader(FALSE, 29, ElfSectionType_SymbolStringTable, 0, u32_of(0), o_h.v,
                          z_h, 0, 0, 1, 0)>>,
         ovf |-> a_t.ovf \/ o_d.ovf \/ a_d.ovf \/ o_y.ovf \/ o_s.ovf \/ o_h.ovf]

\* The 32-bit branch of the section-header block.
section_headers_32(main_offset, ts, ds, entry, data_load_addr, virtual_base, data_len, sym_count, str_len) ==
    LET esz == elf_sym_tab_entry_size(FALSE)
        a_t == add_u32(u64_as_u32(virtual_base), entry)
        o_t == main_offset
        o_d == add_u32(o_t, ts)
        a_d == add_u32(u64_as_u32(virtual_base), data_load_addr)
        z_y == u32_of(sym_count * esz)
        o_y == add_u32(main_offset, u32_of(data_len))
        o_s == add_u32(o_y.v, z_y)
        z_s == u32_of(str_len)
        o_h == add_u32(o_s.v, z_s)
        z_h == u32_of(Len(sh_str_tab))
    IN  [shs |-> <<
            SectionHeader(FALSE, 0, ElfSectionType_Null, 0, u32_of(0), u32_of(0), u32_of(0),
                          0, 0, 0, 0),
            SectionHeader(FALSE, 1, ElfSectionType_ProgBits, SH_FLAG_ALLOC + SH_FLAG_EXEC,
                          a_t.v, o_t, ts, 1, 0, 64, 0),
            SectionHeader(FALSE, 7, ElfSectionType_ProgBits, SH_FLAG_ALLOC + SH_FLAG_WRITE,
                          a_d.v, o_d.v, ds, 1, 0, 32, 0),
            SectionHeader(FALSE, 13, ElfSectionType_SymbolTable, 0, u32_of(0), o_y.v, z_y,
                          SYM_STRING_TABLE_INDEX, sym_count, 8, esz),
            SectionHeader(FALSE, 21, ElfSectionType_SymbolStringTable, 0, u32_of(0), o_s.v,
                          z_s, 0, 0, 1, 0),
            SectionHeader(FALSE, 29, ElfSectionType_SymbolStringTable, 0, u32_of(0), o_h.v,
                          z_h, 0, 0, 1, 0)>>,
         ovf |-> a_t.ovf \/ o_d.ovf \/ a_d.ovf \/ o_y.ovf \/ o_s.ovf \/ o_h.ovf]

ElfSectionHeader_as_bytes(h) ==
    IF h.is64
    THEN u32_bytes(u32_of(h.name)) \o u32_bytes(u32_of(h.section_type))
         \o u64_bytes(u64_of(h.flags)) \o u64_bytes(h.addr) \o u64_bytes(h.offset)
         \o u64_bytes(h.size) \o u32_bytes(u32_of(h.link)) \o u32_bytes(u32_of(h.info))
         \o u64_bytes(u64_of(h.addr_align)) \o u64_bytes(u64_of(h.entry_size))
    ELSE u32_bytes(u32_of(h.name)) \o u32_bytes(u32_of(h.section_type))
         \o u32_bytes(u32_of(h.flags)) \o u32_bytes(h.addr) \o u32_bytes(h.offset)
         \o u32_bytes(h.size) \o u32_bytes(u32_of(h.link)) \o u32_bytes(u32_of(h.info))
         \o u32_bytes(u32_of(h.addr_align)) \o u32_bytes(u32_of(h.entry_size))

----------------------------------------------------------------------------
(* ELF file header *)

ElfId_new(class) ==
    [magic |-> ELF_MAGIC, class |-> class,
     data_encoding |-> ElfDataEncoding_LittleEndian, header_version |-> 1,
     os_abi |-> ElfOsAbi_None, abi_version |-> 0, res |-> Zeros(7)]

ElfHeader_new(program_header_entry_count, section_header_entry_count, entry, machine) ==
    LET is64 == is_64bit(machine)
        elf_header_size == IF is64 THEN ELF64_HEADER_SIZE ELSE ELF32_HEADER_SIZE
        elf_program_header_size ==
            IF is64 THEN ELF64_PROGRAM_HEADER_SIZE ELSE ELF32_PROGRAM_HEADER_SIZE
        elf_section_header_size ==
            IF is64 THEN ELF64_SECTION_HEADER_SIZE ELSE ELF32_SECTION_HEADER_SIZE
        extra == [flags |-> 0,
                  elf_header_size |-> elf_header_size,
                  program_header_entry_size |-> elf_program_header_size,
                  program_header_entry_count |-> program_header_entry_count,
                  section_header_entry_size |-> elf_section_header_size,
                  section_header_entry_count |-> section_header_entry_count,
                  section_header_index_entry |-> SH_STRING_TABLE_INDEX]
        ph_size == program_header_entry_count * elf_program_header_size
        ph_offset == elf_header_size
        sh_offset == ph_offset + ph_size
    IN  [is64 |-> is64,
         id |-> ElfId_new(IF is64 THEN ElfClass_Elf64 ELSE ElfClass_Elf32),
         elf_type |-> ElfType_Executable,
         machine |-> machine,
         version |-> 1,
         entry |-> widen(is64, entry),
         program_header_offset |-> widen(is64, u32_of(ph_offset)),
         section_header_offset |-> widen(is64, u32_of(sh_offset)),
         extra |-> extra]

ElfId_as_bytes(id) ==
    id.magic \o u8_bytes(id.class) \o u8_bytes(id.data_encoding)
    \o u8_bytes(id.header_version) \o u8_bytes(id.os_abi) \o u8_bytes(id.abi_version)
    \o id.res

ElfExtra_as_bytes(x) ==
    u32_bytes(u32_of(x.flags)) \o u16_bytes(x.elf_header_size)
    \o u16_bytes(x.program_header_entry_size) \o u16_bytes(x.program_header_entry_count)
    \o u16_bytes(x.section_header_entry_size) \o u16_bytes(x.section_header_entry_count)
    \o u16_bytes(x.section_header_index_entry)

word_bytes(is64, a) == IF is64 THEN u64_bytes(a) ELSE u32_bytes(a)

ElfHeader_as_bytes(h) ==
    ElfId_as_bytes(h.id) \o u16_bytes(h.elf_type) \o u16_bytes(h.machine)
    \o u32_bytes(u32_of(h.version)) \o word_bytes(h.is64, h.entry)
    \o word_bytes(h.is64, h.program_header_offset)
    \o word_bytes(h.is64, h.section_header_offset)
    \o ElfExtra_as_bytes(h.extra)

\* a concatenation with the carried bytes after the new symbol table
assemble_data_after_symtab(eh, program_headers, section_headers, data, elf_sym_tab, sym_str_tab) ==
    Concat(<<ElfHeader_as_bytes(eh),
             Concat([i \in 1..Len(program_headers) |-> ElfProgramHeader_as_bytes(program_headers[i])]),
             Concat([i \in 1..Len(section_headers) |-> ElfSectionHeader_as_bytes(section_headers[i])]),
             Zeros(PAD_SIZE),
             Concat([i \in 1..Len(elf_sym_tab) |-> ElfSymbolTableEntry_as_bytes(elf_sym_tab[i])]),
             data,
             sym_str_tab,
             sh_str_tab>>)

\* The final concat: [eb, &phb, &shb, &pad, data, &stb, &sym_str_tab, &sh_str_tab].
assemble(eh, program_headers, section_headers, data, elf_sym_tab, sym_str_tab) ==
    Concat(<<ElfHeader_as_bytes(eh),
             Concat([i \in 1..Len(program_headers) |-> ElfProgramHeader_as_bytes(program_headers[i])]),
             Concat([i \in 1..Len(section_headers) |-> ElfSectionHeader_as_bytes(section_headers[i])]),
             Zeros(PAD_SIZE),
             data,
             Concat([i \in 1..Len(elf_sym_tab) |-> ElfSymbolTableEntry_as_bytes(elf_sym_tab[i])]),
             sym_str_tab,
             sh_str_tab>>)

----------------------------------------------------------------------------
(* Input files *)

MaxText == 2
MaxData == 1
MaxExtra == 1
MaxSyms == 3

be_u32_bytes(a) == <<a[1] \div 256, a[1] % 256, a[2] \div 256, a[2] % 256>>

AoutHeaderBytes(magic, ts, ds, ss, entry) ==
    Concat(<<u32_bytes(magic), be_u32_bytes(ts), be_u32_bytes(ds), be_u32_bytes(<<0, 0>>),
             be_u32_bytes(ss), be_u32_bytes(entry), be_u32_bytes(<<0, 0>>),
             be_u32_bytes(<<0, 0>>)>>)

SymRecordBytes(value, sym_type, name) ==
    Concat(<<Zeros(4), be_u32_bytes(value), <<sym_type>>, name, <<0>>>>)

TextBytes(n) == [i \in 1..n |-> 144 + i]

DataBytes(n) == [i \in 1..n |-> 208 + i]

ExtraBytes(n) == [i \in 1..n |-> 238]

\* A well-formed file as the converter reads it: header, 8 bytes, text, data,
\* symbol table, then `extra` bytes after the symbol table.
AoutFile(magic, ts, ds, entry, symtab, extra) ==
    Concat(<<AoutHeaderBytes(magic, u32_of(ts), u32_of(ds), u32_of(Len(symtab)), entry),
             Zeros(PAD_EXTRA_SIZE), TextBytes(ts), DataBytes(ds), symtab,
             ExtraBytes(extra)>>)

Magics == {MAGIC_AMD64, MAGIC_RISCV64}

BadMagics == {<<0, 0>>, <<0, 35479>>, <<38794, 1>>}

Entries == {<<0, 0>>, <<0, 4096>>, <<0, 4097>>, <<32767, 61440>>, <<32768, 0>>,
            <<65535, 61440>>}

SymRecords ==
    {SymRecordBytes(<<0, 16>>, 84, <<98>>),
     SymRecordBytes(<<0, 0>>, 116, <<97>>),
     SymRecordBytes(<<0, 16>>, 212, <<99, 100>>),
     SymRecordBytes(<<0, 4>>, 68, <<100>>),
     SymRecordBytes(<<65535, 65520>>, 84, <<>>),
     SymRecordBytes(<<0, 8>>, 84, <<195>>)}

RECURSIVE SeqsUpTo(_, _)
SeqsUpTo(S, n) ==
    IF n = 0 THEN {<<>>}
    ELSE LET shorter == SeqsUpTo(S, n - 1)
         IN  shorter \cup {q \o r : q \in shorter, r \in S}

\* Ends of a symbol table that are not whole records: fewer than 9 bytes, a
\* bare 9-byte header, and a name that runs to the end without a NUL.
SymTails == {Zeros(1), Zeros(8), Zeros(8) \o <<84>>, Zeros(8) \o <<84, 120, 121>>}

\* A name longer than the 0x80-byte window, followed by an ordinary record.
LongNameSymTab ==
    SymRecordBytes(<<0, 32>>, 84, [i \in 1..130 |-> 120])
    \o SymRecordBytes(<<0, 64>>, 84, <<122>>)

\* Type bytes of the other categories: leaf functions, bss, data with the
\* top bit set, source-file records, frame symbols, and bytes in no category.
OtherTypeBytes == {76, 108, 66, 98, 68 + 128, 122, 102, 90, 109, 1, 85, 255}

\* A symbol of another category between two text symbols.
OtherTypeSymTabs ==
    {Concat(<<SymRecordBytes(<<0, 0>>, 84, <<97>>),
              SymRecordBytes(<<0, 8>>, t, <<120, 121>>),
              SymRecordBytes(<<0, 16>>, 116, <<98>>)>>) : t \in OtherTypeBytes}

SymTabs ==
    SeqsUpTo(SymRecords, MaxSyms)
    \cup {r \o t : r \in SeqsUpTo(SymRecords, 1), t \in SymTails}
    \cup {LongNameSymTab}
    \cup OtherTypeSymTabs

LayoutFiles ==
    {AoutFile(m, ts, ds, e, <<>>, x) :
        m \in Magics, ts \in 0..MaxText, ds \in 0..MaxData, e \in Entries, x \in 0..MaxExtra}

SymbolFiles == {AoutFile(m, 1, 1, <<0, 4096>>, st, 0) : m \in Magics, st \in SymTabs}

BadMagicFiles ==
    {AoutFile(m, 1, 1, <<0, 0>>, <<>>, 0) : m \in BadMagics}
    \cup {AoutHeaderBytes(m, <<0, 0>>, <<0, 0>>, <<0, 0>>, <<0, 0>>) : m \in BadMagics}

\* Every proper prefix of a well-formed file: short headers, buffers of
\* 32..39 bytes, and text, data and symbol regions cut short.
TruncatedFiles ==
    LET full(m) == AoutFile(m, MaxText, MaxData, <<0, 4096>>,
                            SymRecordBytes(<<0, 0>>, 84, <<97>>), 0)
    IN  {SubSeq(full(m), 1, n) : m \in Magics, n \in 0..(Len(full(MAGIC_AMD64)) - 1)}

\* Declared sizes far beyond the buffer.
HugeSizeFiles ==
    {AoutHeaderBytes(m, ts, <<1286, 1800>>, <<2314, 2828>>, <<3342, 3856>>) \o Zeros(n) :
        m \in Magics, n \in {8, 12},
        ts \in {<<0, 4096>>, <<258, 772>>, <<65535, 61440>>, <<65535, 61441>>, <<65535, 65535>>}}

\* Scenario A of the specification, byte for byte: the 32-byte header, 0x20
\* text bytes, 0x10 data bytes, one text symbol record (value 0, "main").
ScenarioA_header == AoutHeaderBytes(MAGIC_AMD64, <<0, 32>>, <<0, 16>>, <<0, 32>>, <<0, 0>>)

ScenarioA_record == SymRecordBytes(<<0, 0>>, 84, <<109, 97, 105, 110>>)

ScenarioA_file == Concat(<<ScenarioA_header, Zeros(32), Zeros(16), ScenarioA_record>>)

\* The same with the symbol range zero-filled to the declared 0x20 bytes,
\* and with the 8 bytes the converter skips after the header.
ScenarioA_filled ==
    Concat(<<ScenarioA_header, Zeros(32), Zeros(16), ScenarioA_record, Zeros(18)>>)

ScenarioA_shifted ==
    Concat(<<ScenarioA_header, Zeros(PAD_EXTRA_SIZE), Zeros(32), Zeros(16),
             ScenarioA_record, Zeros(18)>>)

ScenarioFiles == {ScenarioA_file, ScenarioA_filled, ScenarioA_shifted}

\* Files that begin like an ELF image.
ElfMagicFiles == {ELF_MAGIC \o Zeros(n) : n \in {12, 36}}

InputFiles ==
    LayoutFiles \cup SymbolFiles \cup BadMagicFiles \cup TruncatedFiles
    \cup HugeSizeFiles \cup ScenarioFiles \cup ElfMagicFiles

----------------------------------------------------------------------------
(* The convert command as a state machine *)

VARIABLES
    cmd,              \* the command line's subcommand: Convert or Parse
    d,                \* the input file's bytes (fs::read)
    overflow_checks,  \* build profile: TRUE panics on integer overflow, FALSE wraps
    pc,               \* position in main / aout_to_elf
    result,           \* what aout_to_elf did: none, Ok, Err or panic
    aout,             \* the decoded header
    machine_target,
    data_load_addr,
    data,             \* &d[t_offset..]
    program_headers,
    sym_table_data,   \* &d[s_offset..s_offset + ss]
    offset,           \* parse_aout_symbols' cursor
    syms,             \* parse_aout_symbols' result so far
    elf_sym_tab,
    sym_str_tab,
    section_headers,
    image,            \* the Vec<u8> aout_to_elf returns
    elf_file,         \* <input>.elf: exists, bytes
    exit_status       \* -1 while running; 0 normal exit; 1 main returned Err; 101 panic

vars == <<cmd, d, overflow_checks, pc, result, aout, machine_target, data_load_addr, data,
          program_headers, sym_table_data, offset, syms, elf_sym_tab, sym_str_tab,
          section_headers, image, elf_file, exit_status>>

NoResult == [kind |-> "none", detail |-> ""]

Commands == {"Convert", "Parse"}

Init ==
    /\ cmd \in Commands
    /\ d \in InputFiles
    /\ overflow_checks \in BOOLEAN
    /\ pc = "main"
    /\ result = NoResult
    /\ aout = [ok |-> FALSE]
    /\ machine_target = 0
    /\ data_load_addr = <<0, 0>>
    /\ data = <<>>
    /\ program_headers = <<>>
    /\ sym_table_data = <<>>
    /\ offset = 0
    /\ syms = <<>>
    /\ elf_sym_tab = <<>>
    /\ sym_str_tab = <<>>
    /\ section_headers = <<>>
    /\ image = <<>>
    /\ elf_file = [exists |-> FALSE, bytes |-> <<>>]
    /\ exit_status = -1

\* A panic unwinds out of aout_to_elf and main: the process ends with status
\* 101 (the Rust runtime's) and nothing after the panicking expression runs.
Panic(where) ==
    /\ result' = [kind |-> "panic", detail |-> where]
    /\ pc' = "done"
    /\ exit_status' = 101

\* locals of aout_to_elf that are pure functions of the header
entry == aout.entry_point
ts == aout.text_size
ds == aout.data_size
ss == aout.symbol_table_size
is64 == is_64bit(machine_target)
virtual_base == virtual_base_of(machine_target)
main_offset == u32_of(main_offset_of(is64))
t_offset == AOUT_HEADER_SIZE + PAD_EXTRA_SIZE
d_offset == add_u64(u64_of(t_offset), u32_as_u64(ts)).v
s_offset == add_u64(d_offset, u32_as_u64(ds)).v
s_end == add_u64(s_offset, u32_as_u64(ss)).v

usize_to_nat(a) == a[3] * W + a[4]

\* main, Command::Convert: fs::read(file_name).unwrap(), then aout_to_elf(&d).
\* The unwrap panics when the file cannot be read.
main_convert ==
    /\ pc = "main"
    /\ cmd = "Convert"
    /\ \E readable \in BOOLEAN :
         IF readable
         THEN /\ pc' = "read_header"
              /\ UNCHANGED <<result, exit_status>>
         ELSE Panic("fs::read")
    /\ UNCHANGED <<cmd, d, overflow_checks, aout, machine_target, data_load_addr, data,
                   program_headers, sym_table_data, offset, syms, elf_sym_tab,
                   sym_str_tab, section_headers, image, elf_file>>

\* main, Command::Parse: fs::read(file_name).unwrap()
main_parse ==
    /\ pc = "main"
    /\ cmd = "Parse"
    /\ \E readable \in BOOLEAN :
         IF readable
         THEN /\ pc' = "parse_object"
              /\ UNCHANGED <<result, exit_status>>
         ELSE Panic("fs::read")
    /\ UNCHANGED <<cmd, d, overflow_checks, aout, machine_target, data_load_addr, data,
                   program_headers, sym_table_data, offset, syms, elf_sym_tab,
                   sym_str_tab, section_headers, image, elf_file>>

\* What goblin::Object::parse can answer Object::Elf for: it reads 16 hint
\* bytes and takes the ELF branch on the magic; whether the ELF then parses
\* is the library's matter and left open here.
starts_with_elf_magic(b) == Len(b) >= 16 /\ SubSeq(b, 1, 4) = ELF_MAGIC

\* Parse: if let Ok(goblin::Object::Elf(elf)) = ... { println!; return Ok(()) }
parse_elf ==
    /\ pc = "parse_object"
    /\ starts_with_elf_magic(d)
    /\ pc' = "done"
    /\ exit_status' = 0
    /\ UNCHANGED <<cmd, d, overflow_checks, result, aout, machine_target, data_load_addr, data,
                   program_headers, sym_table_data, offset, syms, elf_sym_tab,
                   sym_str_tab, section_headers, image, elf_file>>

\* Parse: if let Ok((aout, _)) = Aout::read_from_prefix(&d) { match magic ... }
\* A short buffer skips the block; an unknown magic prints and returns Ok(()).
parse_header ==
    /\ pc = "parse_object"
    /\ LET r == Aout_read_from_prefix(d) IN
        IF r.ok /\ r.magic \in {MAGIC_AMD64, MAGIC_RISCV64}
        THEN /\ aout' = r
             /\ pc' = "parse_regions"
             /\ UNCHANGED exit_status
        ELSE /\ pc' = "done"
             /\ exit_status' = 0
             /\ UNCHANGED aout
    /\ UNCHANGED <<cmd, d, overflow_checks, result, machine_target, data_load_addr, data,
                   program_headers, sym_table_data, offset, syms, elf_sym_tab,
                   sym_str_tab, section_headers, image, elf_file>>

\* &d[at..at + 16] of the --debug dumps is in range
debug_dump_in_range(at) == le(add_u64(at, u64_of(16)).v, u64_of(Len(d)))

\* Parse: the region report (with --debug, three 16-byte dumps), then
\* let sym_table_data = &d[st_offset..st_offset + sts as usize];
parse_regions ==
    /\ pc = "parse_regions"
    /\ \E debug \in BOOLEAN :
         IF debug /\ ~(/\ debug_dump_in_range(u64_of(t_offset))
                       /\ debug_dump_in_range(d_offset)
                       /\ debug_dump_in_range(s_offset))
         THEN /\ Panic("debug dump")
              /\ UNCHANGED <<sym_table_data, offset, syms>>
         ELSE IF lt(u64_of(Len(d)), s_end)
         THEN /\ Panic("slice symbols")
              /\ UNCHANGED <<sym_table_data, offset, syms>>
         ELSE /\ sym_table_data' = Slice(d, usize_to_nat(s_offset), usize_to_nat(s_end))
              /\ offset' = 0
              /\ syms' = <<>>
              /\ pc' = "parse_aout_symbols"
              /\ UNCHANGED <<result, exit_status>>
    /\ UNCHANGED <<cmd, d, overflow_checks, aout, machine_target, data_load_addr, data,
                   program_headers, elf_sym_tab, sym_str_tab, section_headers, image,
                   elf_file>>

\* if let Ok((aout, _)) = Aout::read_from_prefix(d) ... else Err(...)
read_header ==
    /\ pc = "read_header"
    /\ LET r == Aout_read_from_prefix(d) IN
        IF r.ok
        THEN /\ aout' = r
             /\ pc' = "map_machine"
             /\ UNCHANGED result
        ELSE /\ result' = [kind |-> "Err", detail |-> "Could not parse a.out"]
             /\ pc' = "returned"
             /\ UNCHANGED aout
    /\ UNCHANGED <<cmd, d, overflow_checks, machine_target, data_load_addr, data,
                   program_headers, sym_table_data, offset, syms, elf_sym_tab,
                   sym_str_tab, section_headers, image, elf_file, exit_status>>

\* let machine_target = aout_mach_to_elf(&aout); is_64bit; virtual_base
map_machine ==
    /\ pc = "map_machine"
    /\ LET m == aout_mach_to_elf(aout) IN
        IF m.panic
        THEN /\ Panic("aout_mach_to_elf")
             /\ UNCHANGED machine_target
        ELSE /\ machine_target' = m.machine
             /\ pc' = "compute_layout"
             /\ UNCHANGED <<result, exit_status>>
    /\ UNCHANGED <<cmd, d, overflow_checks, aout, data_load_addr, data, program_headers,
                   sym_table_data, offset, syms, elf_sym_tab, sym_str_tab,
                   section_headers, image, elf_file>>

\* sizes, offsets, data_load_addr = entry + align_4k(ts), main_offset
compute_layout ==
    /\ pc = "compute_layout"
    /\ LET a == align_4k(ts)
           sum == add_u32(entry, a.v)
       IN  IF overflow_checks /\ (a.ovf \/ sum.ovf)
           THEN /\ Panic("data_load_addr")
                /\ UNCHANGED data_load_addr
           ELSE /\ data_load_addr' = sum.v
                /\ pc' = "slice_data"
                /\ UNCHANGED <<result, exit_status>>
    /\ UNCHANGED <<cmd, d, overflow_checks, aout, machine_target, data, program_headers,
                   sym_table_data, offset, syms, elf_sym_tab, sym_str_tab,
                   section_headers, image, elf_file>>

\* let data = &d[t_offset..];
slice_data ==
    /\ pc = "slice_data"
    /\ IF t_offset > Len(d)
       THEN /\ Panic("slice data")
            /\ UNCHANGED data
       ELSE /\ data' = SliceFrom(d, t_offset)
            /\ pc' = "program_headers"
            /\ UNCHANGED <<result, exit_status>>
    /\ UNCHANGED <<cmd, d, overflow_checks, aout, machine_target, data_load_addr,
                   program_headers, sym_table_data, offset, syms, elf_sym_tab,
                   sym_str_tab, section_headers, image, elf_file>>

\* let program_headers = { ... };
build_program_headers ==
    /\ pc = "program_headers"
    /\ LET r == IF is64
                THEN program_headers_64(main_offset, ts, ds, ss, entry, data_load_addr,
                                        virtual_base)
                ELSE program_headers_32(main_offset, ts, ds, ss, entry, data_load_addr,
                                        virtual_base)
       IN  IF overflow_checks /\ r.ovf
           THEN /\ Panic("program headers")
                /\ UNCHANGED program_headers
           ELSE /\ program_headers' = r.phs
                /\ pc' = "slice_symbols"
                /\ UNCHANGED <<result, exit_status>>
    /\ UNCHANGED <<cmd, d, overflow_checks, aout, machine_target, data_load_addr, data,
                   sym_table_data, offset, syms, elf_sym_tab, sym_str_tab,
                   section_headers, image, elf_file>>

\* let sym_table_data = &d[s_offset..s_offset + ss as usize];
slice_symbols ==
    /\ pc = "slice_symbols"
    /\ IF lt(u64_of(Len(d)), s_end)
       THEN /\ Panic("slice symbols")
            /\ UNCHANGED <<sym_table_data, offset, syms>>
       ELSE /\ sym_table_data' = Slice(d, usize_to_nat(s_offset), usize_to_nat(s_end))
            /\ offset' = 0
            /\ syms' = <<>>
            /\ pc' = "parse_aout_symbols"
            /\ UNCHANGED <<result, exit_status>>
    /\ UNCHANGED <<cmd, d, overflow_checks, aout, machine_target, data_load_addr, data,
                   program_headers, elf_sym_tab, sym_str_tab, section_headers, image,
                   elf_file>>

\* parse_aout_symbols: one iteration of `while offset < st.len()`
parse_aout_symbols_step ==
    /\ pc = "parse_aout_symbols"
    /\ offset < Len(sym_table_data)
    /\ LET sym == parse_sym(SliceFrom(sym_table_data, offset)) IN
        IF sym.panic
        THEN /\ Panic("parse_sym")
             /\ UNCHANGED <<offset, syms>>
        ELSE /\ offset' = offset + AoutSymbol_len(sym)
             /\ syms' = Append(syms, [header |-> sym.header, name |-> sym.name])
             /\ UNCHANGED <<pc, result, exit_status>>
    /\ UNCHANGED <<cmd, d, overflow_checks, aout, machine_target, data_load_addr, data,
                   program_headers, sym_table_data, elf_sym_tab, sym_str_tab,
                   section_headers, image, elf_file>>

\* parse_aout_symbols: the loop condition fails, syms is returned to the
\* caller: aout_to_elf goes on to translate, Parse prints the count and
\* main returns Ok(()).
parse_aout_symbols_return ==
    /\ pc = "parse_aout_symbols"
    /\ ~(offset < Len(sym_table_data))
    /\ IF cmd = "Convert"
       THEN /\ pc' = "aout_syms_to_elf"
            /\ UNCHANGED exit_status
       ELSE /\ pc' = "done"
            /\ exit_status' = 0
    /\ UNCHANGED <<cmd, d, overflow_checks, result, aout, machine_target, data_load_addr, data,
                   program_headers, sym_table_data, offset, syms, elf_sym_tab,
                   sym_str_tab, section_headers, image, elf_file>>

\* let (elf_sym_tab, sym_str_tab) = aout_syms_to_elf(syms, is_64bit);
translate_symbols ==
    /\ pc = "aout_syms_to_elf"
    /\ LET r == aout_syms_to_elf(syms, is64) IN
        IF overflow_checks /\ r.ovf
        THEN /\ Panic("aout_syms_to_elf")
             /\ UNCHANGED <<elf_sym_tab, sym_str_tab>>
        ELSE /\ elf_sym_tab' = r.elf_sym_tab
             /\ sym_str_tab' = r.sym_str_tab
             /\ pc' = "section_headers"
             /\ UNCHANGED <<result, exit_status>>
    /\ UNCHANGED <<cmd, d, overflow_checks, aout, machine_target, data_load_addr, data,
                   program_headers, sym_table_data, offset, syms, section_headers, image,
                   elf_file>>

\* let sh_str_tab = ...; let section_headers = { ... };
build_section_headers ==
    /\ pc = "section_headers"
    /\ LET r == IF is64
                THEN section_headers_64(main_offset, ts, ds, entry, data_load_addr,
                                        virtual_base, Len(data), Len(elf_sym_tab),
                                        Len(sym_str_tab))
                ELSE section_headers_32(main_offset, ts, ds, entry, data_load_addr,
                                        virtual_base, Len(data), Len(elf_sym_tab),
                                        Len(sym_str_tab))
       IN  IF overflow_checks /\ r.ovf
           THEN /\ Panic("section headers")
                /\ UNCHANGED section_headers
           ELSE /\ section_headers' = r.shs
                /\ pc' = "assemble"
                /\ UNCHANGED <<result, exit_status>>
    /\ UNCHANGED <<cmd, d, overflow_checks, aout, machine_target, data_load_addr, data,
                   program_headers, sym_table_data, offset, syms, elf_sym_tab,
                   sym_str_tab, image, elf_file>>

\* ElfHeader::new, the byte buffers, Ok([...].concat())
assemble_image ==
    /\ pc = "assemble"
    /\ image' = assemble(ElfHeader_new(3, 6, entry, machine_target), program_headers,
                         section_headers, data, elf_sym_tab, sym_str_tab)
    /\ result' = [kind |-> "Ok", detail |-> ""]
    /\ pc' = "returned"
    /\ UNCHANGED <<cmd, d, overflow_checks, aout, machine_target, data_load_addr, data,
                   program_headers, sym_table_data, offset, syms, elf_sym_tab,
                   sym_str_tab, section_headers, elf_file, exit_status>>

\* What the file system can do with File::create and write_all.
IoOutcomes == {"written", "create failed", "write failed"}

\* main writing whatever aout_to_elf left behind, Ok or not
main_finish_writes_always ==
    /\ pc = "returned"
    /\ elf_file' = [exists |-> TRUE, bytes |-> image]
    /\ exit_status' = 0
    /\ pc' = "done"
    /\ UNCHANGED <<cmd, d, overflow_checks, result, aout, machine_target, data_load_addr, data,
                   program_headers, sym_table_data, offset, syms, elf_sym_tab,
                   sym_str_tab, section_headers, image>>

\* main: if let Ok(image) = aout_to_elf(&d) { File::create(..)?; f.write_all(&image); }
\* Ok(()).  An Err from aout_to_elf skips the block.  A failed create leaves
\* main through `?` (status 1, the runtime prints the io::Error); the result
\* of write_all is dropped, so a failed write leaves the bytes written so
\* far and main still returns Ok(()).
main_finish ==
    /\ pc = "returned"
    /\ IF result.kind = "Ok"
       THEN \E io \in IoOutcomes :
              CASE io = "written" ->
                     /\ elf_file' = [exists |-> TRUE, bytes |-> image]
                     /\ exit_status' = 0
                [] io = "create failed" ->
                     /\ elf_file' = elf_file
                     /\ exit_status' = 1
                [] io = "write failed" ->
                     /\ \E n \in {0, Len(image) - 1} :
                          elf_file' = [exists |-> TRUE, bytes |-> SubSeq(image, 1, n)]
                     /\ exit_status' = 0
       ELSE /\ elf_file' = elf_file
            /\ exit_status' = 0
    /\ pc' = "done"
    /\ UNCHANGED <<cmd, d, overflow_checks, result, aout, machine_target, data_load_addr, data,
                   program_headers, sym_table_data, offset, syms, elf_sym_tab,
                   sym_str_tab, section_headers, image>>

Next ==
    \/ main_convert
    \/ main_parse
    \/ parse_elf
    \/ parse_header
    \/ parse_regions
    \/ read_header
    \/ map_machine
    \/ compute_layout
    \/ slice_data
    \/ build_program_headers
    \/ slice_symbols
    \/ parse_aout_symbols_step
    \/ parse_aout_symbols_return
    \/ translate_symbols
    \/ build_section_headers
    \/ assemble_image
    \/ main_finish

Spec == Init /\ [][Next]_vars

----------------------------------------------------------------------------
(* Reading an emitted image back, per the ELF ABI field layout *)

LE16At(b, off) == b[off + 2] * 256 + b[off + 1]

LE32At(b, off) == <<LE16At(b, off + 2), LE16At(b, off)>>

LE64At(b, off) == <<LE16At(b, off + 6), LE16At(b, off + 4), LE16At(b, off + 2), LE16At(b, off)>>

ImgIs64(b) == b[5] = 2

\* a word-sized field: 4 bytes in class 32, 8 bytes in class 64
ImgWord(b, off) == IF ImgIs64(b) THEN LE64At(b, off) ELSE LE32At(b, off)

IsSmall(a) == IF Len(a) = 2 THEN a[1] < 32768 ELSE a[1] = 0 /\ a[2] = 0 /\ a[3] < 32768

NatOf(a) == IF Len(a) = 2 THEN a[1] * W + a[2] ELSE a[3] * W + a[4]

Widened(b, a) == IF ImgIs64(b) THEN <<0, 0, a[1], a[2]>> ELSE a

ImgPhOff(b) == NatOf(ImgWord(b, IF ImgIs64(b) THEN 32 ELSE 28))
ImgShOff(b) == NatOf(ImgWord(b, IF ImgIs64(b) THEN 40 ELSE 32))
ImgEhSize(b) == LE16At(b, IF ImgIs64(b) THEN 52 ELSE 40)
ImgPhEntSize(b) == LE16At(b, IF ImgIs64(b) THEN 54 ELSE 42)
ImgPhNum(b) == LE16At(b, IF ImgIs64(b) THEN 56 ELSE 44)
ImgShEntSize(b) == LE16At(b, IF ImgIs64(b) THEN 58 ELSE 46)
ImgShNum(b) == LE16At(b, IF ImgIs64(b) THEN 60 ELSE 48)
ImgMachine(b) == LE16At(b, 18)

\* program header k (1-based)
ImgPhAt(b, k) == ImgPhOff(b) + (k - 1) * ImgPhEntSize(b)
ImgPhType(b, k) == LE32At(b, ImgPhAt(b, k))
ImgPhOffset(b, k) == ImgWord(b, ImgPhAt(b, k) + (IF ImgIs64(b) THEN 8 ELSE 4))
ImgPhVirtualAddr(b, k) == ImgWord(b, ImgPhAt(b, k) + (IF ImgIs64(b) THEN 16 ELSE 8))
ImgPhPhysicalAddr(b, k) == ImgWord(b, ImgPhAt(b, k) + (IF ImgIs64(b) THEN 24 ELSE 12))
ImgPhFileSize(b, k) == ImgWord(b, ImgPhAt(b, k) + (IF ImgIs64(b) THEN 32 ELSE 16))

\* section header k (1-based: 1 NULL, 2 .text, 3 .data, 4 .symtab, 5 .strtab, 6 .shstrtab)
ImgShAt(b, k) == ImgShOff(b) + (k - 1) * ImgShEntSize(b)
ImgShAddr(b, k) == ImgWord(b, ImgShAt(b, k) + (IF ImgIs64(b) THEN 16 ELSE 12))
ImgShOffset(b, k) == ImgWord(b, ImgShAt(b, k) + (IF ImgIs64(b) THEN 24 ELSE 16))
ImgShSize(b, k) == ImgWord(b, ImgShAt(b, k) + (IF ImgIs64(b) THEN 32 ELSE 20))
ImgShEntrySize(b, k) == ImgWord(b, ImgShAt(b, k) + (IF ImgIs64(b) THEN 56 ELSE 36))

ImgBytes(b, off, n) == SubSeq(b, off + 1, off + n)

\* the conversion succeeded and the image is in <input>.elf
Converted ==
    /\ pc = "done"
    /\ result.kind = "Ok"
    /\ elf_file.exists
    /\ elf_file.bytes = image

\* the run is a convert whose file was read: aout_to_elf(&d) has been called
\* and has got past its first statement
AoutToElfRan ==
    /\ cmd = "Convert"
    /\ pc \notin {"main", "read_header"}
    /\ result.detail # "fs::read"

\* aout_to_elf has returned or panicked and main has ended
ConvertEnded == AoutToElfRan /\ pc = "done"

KnownMagic == Len(d) >= AOUT_HEADER_SIZE /\ read_native_u32(d, 1) \in Magics

----------------------------------------------------------------------------
(* C1 *)

\* C1: for every input that converts successfully, in both ELF classes, the
\* first program header of the written image is a LOAD header whose file
\* size is the a.out text_size, and the second is a LOAD header whose file
\* size is the a.out data_size.
C1_SegmentSizeFidelity ==
    Converted =>
        /\ ImgPhNum(elf_file.bytes) = 3
        /\ ImgPhType(elf_file.bytes, 1) = <<0, 1>>
        /\ ImgPhType(elf_file.bytes, 2) = <<0, 1>>
        /\ ImgPhFileSize(elf_file.bytes, 1) = Widened(elf_file.bytes, aout.text_size)
        /\ ImgPhFileSize(elf_file.bytes, 2) = Widened(elf_file.bytes, aout.data_size)

C1_Witness ==
    /\ Converted
    /\ ImgIs64(elf_file.bytes)
    /\ aout.text_size = <<0, 2>>
    /\ aout.data_size = <<0, 1>>

----------------------------------------------------------------------------
(* C2 *)

ImgShOffsets(b) == [k \in 1..6 |-> ImgShOffset(b, k)]

Region(off, size) == [off |-> off, size |-> size]

\* The regions the headers of an image name: ELF header, program header
\* table, section header table, text, data, retained a.out symbol table,
\* .symtab, .strtab, .shstrtab.
ImgRegionWords(b) ==
    <<Region(u32_of(0), u32_of(ImgEhSize(b))),
      Region(u32_of(ImgPhOff(b)), u32_of(ImgPhNum(b) * ImgPhEntSize(b))),
      Region(u32_of(ImgShOff(b)), u32_of(ImgShNum(b) * ImgShEntSize(b))),
      Region(ImgPhOffset(b, 1), ImgPhFileSize(b, 1)),
      Region(ImgPhOffset(b, 2), ImgPhFileSize(b, 2)),
      Region(ImgPhOffset(b, 3), ImgPhFileSize(b, 3)),
      Region(ImgShOffset(b, 4), ImgShSize(b, 4)),
      Region(ImgShOffset(b, 5), ImgShSize(b, 5)),
      Region(ImgShOffset(b, 6), ImgShSize(b, 6))>>

RegionsDisjoint(r, q) ==
    \/ NatOf(r.size) = 0
    \/ NatOf(q.size) = 0
    \/ NatOf(r.off) + NatOf(r.size) <= NatOf(q.off)
    \/ NatOf(q.off) + NatOf(q.size) <= NatOf(r.off)

ImgNoOverlap(b) ==
    LET rs == ImgRegionWords(b) IN
        /\ \A i \in 1..Len(rs) :
              /\ IsSmall(rs[i].off) /\ IsSmall(rs[i].size)
              /\ NatOf(rs[i].off) + NatOf(rs[i].size) <= Len(b)
        /\ \A i \in 1..Len(rs) : \A j \in (i + 1)..Len(rs) : RegionsDisjoint(rs[i], rs[j])

\* the .text section and the text LOAD header name the same bytes, and so
\* do .data and the data LOAD header
ImgSectionsMatchSegments(b) ==
    /\ ImgShOffset(b, 2) = ImgPhOffset(b, 1) /\ ImgShSize(b, 2) = ImgPhFileSize(b, 1)
    /\ ImgShOffset(b, 3) = ImgPhOffset(b, 2) /\ ImgShSize(b, 3) = ImgPhFileSize(b, 2)

\* C2 as stated: for every input that converts successfully, the offsets of
\* the six section headers strictly increase in emission order, and no two
\* emitted regions overlap.
C2_StrictlyIncreasingOffsets ==
    Converted =>
        /\ \A k \in 1..5 : lt(ImgShOffsets(elf_file.bytes)[k], ImgShOffsets(elf_file.bytes)[k + 1])
        /\ ImgNoOverlap(elf_file.bytes)

\* bytes of the input after the text region: data, symbol table, anything else
BytesAfterText == Len(d) - t_offset - NatOf(aout.text_size)

\* C2 as amended: for every input that converts successfully, the offsets of
\* the six section headers never decrease in emission order; .text and .data
\* share an offset exactly when text_size = 0, .data and .symtab share an
\* offset exactly when no input byte follows the text region (data_size = 0,
\* symbol_table_size = 0, nothing after), every other consecutive pair
\* strictly increases; and no two emitted regions overlap.
C2_MonotoneOffsets ==
    Converted =>
        LET off == ImgShOffsets(elf_file.bytes) IN
            /\ lt(off[1], off[2])
            /\ IF aout.text_size = <<0, 0>> THEN off[2] = off[3] ELSE lt(off[2], off[3])
            /\ IF BytesAfterText = 0 THEN off[3] = off[4] ELSE lt(off[3], off[4])
            /\ lt(off[4], off[5])
            /\ lt(off[5], off[6])
            /\ ImgSectionsMatchSegments(elf_file.bytes)
            /\ ImgNoOverlap(elf_file.bytes)

C2_Witness ==
    /\ Converted
    /\ aout.text_size = <<0, 0>>
    /\ BytesAfterText = 0
    /\ ImgShOffset(elf_file.bytes, 2) = ImgShOffset(elf_file.bytes, 4)

----------------------------------------------------------------------------
(* C3, C4, C5: the translated symbol table *)

\* aout_syms_to_elf has run
Translated ==
    \/ pc \in {"section_headers", "assemble"}
    \/ pc \in {"returned", "done"} /\ result.kind = "Ok"

IsTextSym(sy) == (sy.header.sym_type % 128) \in {SYM_TEXT, SYM_STATIC_TEXT}

FilteredText == SelectSeq(syms, IsTextSym)

\* The stable ascending order of a list by address, stated as a property of
\* a permutation: addresses never decrease, and equal addresses keep their
\* input order.
IsStableAscending(f, p) ==
    \A i \in 1..Len(f) : \A j \in (i + 1)..Len(f) :
        /\ le(f[p[i]].header.value, f[p[j]].header.value)
        /\ f[p[i]].header.value = f[p[j]].header.value => p[i] < p[j]

StableSorted(f) ==
    IF f = <<>> THEN <<>>
    ELSE LET p == CHOOSE q \in Permutations(1..Len(f)) : IsStableAscending(f, q)
         IN  [i \in 1..Len(f) |-> f[p[i]]]

\* the function entries: everything after the reserved first entry
FunctionEntries == SubSeq(elf_sym_tab, 2, Len(elf_sym_tab))

EntryValue(e) == IF e.is64 THEN <<e.value[3], e.value[4]>> ELSE e.value

EntrySize(e) == IF e.is64 THEN <<e.size[3], e.size[4]>> ELSE e.size

EntryFits32(e) == e.is64 => e.value[1] = 0 /\ e.value[2] = 0 /\ e.size[1] = 0 /\ e.size[2] = 0

\* the NUL-terminated string at a byte offset of a string table
StringAt(tab, off) ==
    LET rest == SubSeq(tab, off + 1, Len(tab))
        nul == CHOOSE i \in 1..Len(rest) : rest[i] = 0 /\ \A j \in 1..(i - 1) : rest[j] # 0
    IN  SubSeq(rest, 1, nul - 1)

HasStringAt(tab, off) == \E i \in (off + 1)..Len(tab) : tab[i] = 0

\* C3: the function entries emitted by aout_syms_to_elf have non-decreasing
\* value fields, and their order is that of the filtered text symbols after
\* a stable ascending sort by address: entry i carries the address and the
\* name of the i-th symbol of that order.
C3_SymbolOrdering ==
    Translated =>
        LET fe == FunctionEntries
            srt == StableSorted(FilteredText)
        IN  /\ Len(fe) <= Len(srt)
            /\ \A i \in 1..(Len(fe) - 1) : le(EntryValue(fe[i]), EntryValue(fe[i + 1]))
            /\ \A i \in 1..Len(fe) :
                  /\ EntryFits32(fe[i])
                  /\ EntryValue(fe[i]) = srt[i].header.value
                  /\ HasStringAt(sym_str_tab, NatOf(fe[i].name_offset))
                  /\ StringAt(sym_str_tab, NatOf(fe[i].name_offset)) = srt[i].name

\* two emitted entries with the same address, from an input list that was
\* not in ascending order
C3_Witness ==
    /\ Converted
    /\ Len(FunctionEntries) = 2
    /\ EntryValue(FunctionEntries[1]) = EntryValue(FunctionEntries[2])
    /\ Len(syms) = 3
    /\ lt(syms[2].header.value, syms[1].header.value)

\* C4: with n filtered text symbols, aout_syms_to_elf emits exactly
\* max(n-1, 0) function entries after the reserved one; the i-th has the
\* address of sorted symbol i as value, the exact difference to the address
\* of sorted symbol i+1 as size (no borrow), info = local | function = 2 and
\* section index 1; the last sorted symbol gets no entry.  Two text symbols
\* at 0x0 and 0x10 give exactly one entry, value 0x0, size 0x10.
C4_AdjacentPairEmission ==
    Translated =>
        LET fe == FunctionEntries
            srt == StableSorted(FilteredText)
            n == Len(srt)
        IN  /\ Len(elf_sym_tab) >= 1
            /\ Len(fe) = (IF n >= 1 THEN n - 1 ELSE 0)
            /\ \A i \in 1..Len(fe) :
                  /\ EntryFits32(fe[i])
                  /\ EntryValue(fe[i]) = srt[i].header.value
                  /\ le(srt[i].header.value, srt[i + 1].header.value)
                  /\ add_u32(EntryValue(fe[i]), EntrySize(fe[i])).v = srt[i + 1].header.value
                  /\ ~add_u32(EntryValue(fe[i]), EntrySize(fe[i])).ovf
                  /\ fe[i].info = 2
                  /\ fe[i].other = 0
                  /\ fe[i].section_index = 1
            /\ (n = 2 /\ srt[1].header.value = <<0, 0>> /\ srt[2].header.value = <<0, 16>>)
                  => /\ Len(fe) = 1
                     /\ EntryValue(fe[1]) = <<0, 0>>
                     /\ EntrySize(fe[1]) = <<0, 16>>

\* Scenario B, the 0x10 symbol first in the input
C4_Witness ==
    /\ Converted
    /\ Len(syms) = 2
    /\ syms[1].header.value = <<0, 16>> /\ IsTextSym(syms[1])
    /\ syms[2].header.value = <<0, 0>> /\ IsTextSym(syms[2])
    /\ Len(FunctionEntries) = 1

\* C5: the first entry of the emitted ELF symbol table is always the
\* all-zero undefined entry, and when symbol_table_size = 0 the .symtab
\* section is that one entry (section size = entry size) and the symbol-name
\* string table is exactly one zero byte.
C5_ReservedEntry ==
    /\ Translated =>
          /\ Len(elf_sym_tab) >= 1
          /\ ElfSymbolTableEntry_as_bytes(elf_sym_tab[1]) = Zeros(IF is64 THEN 24 ELSE 16)
    /\ Converted =>
          LET b == elf_file.bytes
              esz == IF ImgIs64(b) THEN 24 ELSE 16
          IN  /\ NatOf(ImgShEntrySize(b, 4)) = esz
              /\ NatOf(ImgShSize(b, 4)) >= esz
              /\ ImgBytes(b, NatOf(ImgShOffset(b, 4)), esz) = Zeros(esz)
              /\ NatOf(ImgShSize(b, 5)) >= 1
              /\ b[NatOf(ImgShOffset(b, 5)) + 1] = 0
              /\ aout.symbol_table_size = <<0, 0>> =>
                    /\ NatOf(ImgShSize(b, 4)) = esz
                    /\ NatOf(ImgShSize(b, 5)) = 1
                    /\ Len(elf_sym_tab) = 1
                    /\ sym_str_tab = <<0>>

C5_Witness ==
    /\ Converted
    /\ aout.symbol_table_size = <<0, 0>>
    /\ NatOf(ImgShSize(elf_file.bytes, 5)) = 1

----------------------------------------------------------------------------
(* C6 .. C10: scenarios and failures *)

\* C6 (Scenario A): converting the input made of the 32-byte Amd64 header
\* with text_size = 0x20, data_size = 0x10, symbol_table_size = 0x20,
\* entry_point = 0, then 0x20 zero text bytes, 0x10 zero data bytes and the
\* text symbol record (0, "main") succeeds; the output starts with
\* 7F 45 4C 46, has class 32-bit and machine Amd64, and its symbol table is
\* the reserved entry and nothing else.
C6_ScenarioA ==
    (ConvertEnded /\ d \in ScenarioFiles) =>
        /\ result.kind = "Ok"
        /\ elf_file.exists
        /\ ImgBytes(elf_file.bytes, 0, 4) = <<127, 69, 76, 70>>
        /\ elf_file.bytes[5] = 1
        /\ ImgMachine(elf_file.bytes) = 62
        /\ NatOf(ImgShSize(elf_file.bytes, 4)) = 16
        /\ Len(elf_sym_tab) = 1

\* C7 (Scenario C): for every input of at least header size whose magic is
\* neither the Amd64 nor the RiscV64 value, conversion ends with an error
\* value returned to the caller (UnsupportedArchitecture), not an abort, and
\* no output file is created.
C7_UnsupportedArchitecture ==
    (ConvertEnded /\ Len(d) >= AOUT_HEADER_SIZE /\ ~KnownMagic) =>
        /\ result.kind = "Err"
        /\ ~elf_file.exists

\* the part of C7 the code does keep: no output file for an unknown magic
C7_NoOutputFile ==
    (Len(d) >= AOUT_HEADER_SIZE /\ ~KnownMagic) => ~elf_file.exists

\* C8: for every buffer shorter than the 32-byte header aout_to_elf returns
\* an error and decodes nothing else; for every buffer of at least 32 bytes
\* the header decode succeeds, and text_size, data_size, symbol_table_size
\* and entry_point are the big-endian values of bytes 4..7, 8..11, 16..19
\* and 20..23.
C8_HeaderDecode ==
    AoutToElfRan =>
        IF Len(d) < 32
        THEN /\ result.kind = "Err"
             /\ pc \in {"returned", "done"}
             /\ ~aout.ok
             /\ machine_target = 0
             /\ data = <<>> /\ sym_table_data = <<>> /\ syms = <<>>
             /\ program_headers = <<>> /\ elf_sym_tab = <<>>
             /\ exit_status # 101
        ELSE /\ aout.ok
             /\ be_u32_bytes(aout.text_size) = SubSeq(d, 5, 8)
             /\ be_u32_bytes(aout.data_size) = SubSeq(d, 9, 12)
             /\ be_u32_bytes(aout.symbol_table_size) = SubSeq(d, 17, 20)
             /\ be_u32_bytes(aout.entry_point) = SubSeq(d, 21, 24)

C8_Witness ==
    /\ ConvertEnded
    /\ Len(d) = 31
    /\ result.kind = "Err"

\* the declared regions end past the end of the buffer
DeclaredPastEnd == lt(u64_of(Len(d)), s_end) \/ Len(d) < t_offset

\* C9: whenever the declared text_size, data_size or symbol_table_size makes
\* a region extend past the end of the input buffer (a buffer of 32..39
\* bytes included), conversion ends in an error outcome (TruncatedInput),
\* not in an abort.
C9_TruncatedInput ==
    (ConvertEnded /\ KnownMagic /\ DeclaredPastEnd) => result.kind = "Err"

\* where the k-th decoded symbol record starts in the symbol-table range
RECURSIVE RecordStart(_)
RecordStart(k) == IF k = 1 THEN 0 ELSE RecordStart(k - 1) + AoutSymbol_len(syms[k - 1])

\* the name window of the record at a cursor: 128 bytes, or the rest of the range
NameWindow(at) ==
    SubSeq(sym_table_data, at + SYM_HEADER_SIZE + 1,
           Min(Len(sym_table_data), at + SYM_HEADER_SIZE + 128))

WindowHasNul(at) == \E i \in 1..Len(NameWindow(at)) : NameWindow(at)[i] = 0

\* C10: a record whose name has no NUL within its lookahead window (128
\* bytes, or the rest of the range if shorter) never yields a symbol, with
\* whatever name: every symbol parse_aout_symbols has decoded comes from a
\* record whose window holds a NUL.
C10_UnterminatedName ==
    \A k \in 1..Len(syms) : WindowHasNul(RecordStart(k))

----------------------------------------------------------------------------
(* C11, C12: how a run ends and when the output file is touched *)

\* C11: every run of convert ends either in success (exit status 0 and the
\* whole image written to the output file) or with a reported diagnostic and
\* a non-zero exit status that is not a panic's; no run ends in a panic or
\* in a zero exit without the output.
C11_ExitBehaviour ==
    (cmd = "Convert" /\ pc = "done") =>
        \/ /\ exit_status = 0
           /\ result.kind = "Ok"
           /\ elf_file.exists
           /\ elf_file.bytes = image
        \/ /\ exit_status = 1
           /\ result.kind # "panic"

\* the image aout_to_elf returns is the whole concatenation
ImageComplete ==
    image = assemble(ElfHeader_new(3, 6, entry, machine_target), program_headers,
                     section_headers, data, elf_sym_tab, sym_str_tab)

IsPrefix(p, q) == Len(p) <= Len(q) /\ p = SubSeq(q, 1, Len(p))

\* C12: the output file exists only in a convert run in which aout_to_elf
\* has returned Ok with the complete image, and holds bytes of that image in
\* order; in every run whose conversion returned an error or panicked, at
\* any stage, and in every parse run, the output file is never created.
C12_NoPartialOutput ==
    /\ elf_file.exists =>
          /\ cmd = "Convert"
          /\ pc = "done"
          /\ result.kind = "Ok"
          /\ ImageComplete
          /\ IsPrefix(elf_file.bytes, image)
    /\ result.kind \in {"Err", "panic"} => elf_file = [exists |-> FALSE, bytes |-> <<>>]
    /\ cmd = "Parse" => elf_file = [exists |-> FALSE, bytes |-> <<>>]

\* a convert run that failed late, in symbol parsing, and has ended
C12_Witness ==
    /\ cmd = "Convert"
    /\ pc = "done"
    /\ result = [kind |-> "panic", detail |-> "parse_sym"]
    /\ Len(syms) > 0
    /\ ~elf_file.exists

----------------------------------------------------------------------------
(* C13: the carried bytes *)

\* the three regions of the input, where aout_to_elf takes them from
InputText == SubSeq(d, t_offset + 1, usize_to_nat(d_offset))
InputData == SubSeq(d, usize_to_nat(d_offset) + 1, usize_to_nat(s_offset))
InputSymbolTable == SubSeq(d, usize_to_nat(s_offset) + 1, usize_to_nat(s_end))

\* the bytes of an image in the range program header k names
ImgPhRange(b, k) == ImgBytes(b, NatOf(ImgPhOffset(b, k)), NatOf(ImgPhFileSize(b, k)))

\* C13: for every input that converts successfully, the three program
\* headers of the written image name the ranges starting at main_offset,
\* main_offset + T and main_offset + T + D, of T, D and S bytes, and the
\* bytes in them are the input's text, data and symbol-table regions, byte
\* for byte.
C13_CarriedBytesVerbatim ==
    Converted =>
        LET b == elf_file.bytes
            T == NatOf(ts)
            D == NatOf(ds)
            S == NatOf(ss)
            mo == main_offset_of(ImgIs64(b))
        IN  /\ NatOf(ImgPhOffset(b, 1)) = mo
            /\ NatOf(ImgPhOffset(b, 2)) = mo + T
            /\ NatOf(ImgPhOffset(b, 3)) = mo + T + D
            /\ Len(InputText) = T /\ Len(InputData) = D /\ Len(InputSymbolTable) = S
            /\ ImgPhRange(b, 1) = InputText
            /\ ImgPhRange(b, 2) = InputData
            /\ ImgPhRange(b, 3) = InputSymbolTable
            /\ ImgBytes(b, mo, T + D + S) = SubSeq(d, t_offset + 1, t_offset + T + D + S)

\* a converted file with text, data and a symbol table of two records or more
C13_Witness ==
    /\ Converted
    /\ NatOf(ts) > 0
    /\ NatOf(ds) > 0
    /\ NatOf(ss) >= 20
    /\ InputSymbolTable = sym_table_data

----------------------------------------------------------------------------
(* C14: the data load address *)

\* a 32-bit value rounded up to the next multiple of 4096, modulo 2^32
RoundUp4k(a) ==
    LET q == a[1] * 16 + (a[2] \div 4096) + (IF a[2] % 4096 = 0 THEN 0 ELSE 1)
    IN  <<(q \div 16) % W, (q % 16) * 4096>>

\* the architecture's virtual base, by the machine code in the image
ImgVirtualBase(b) == IF ImgMachine(b) = ElfMachine_Amd64 THEN <<32768, 0>> ELSE <<0, 0>>

\* base + a as the image's class holds it: a 32-bit sum in class 32, the
\* zero-extended 32-bit address plus the base in class 64
ImgBased(b, a) ==
    IF ImgIs64(b)
    THEN add_u64(u32_as_u64(ImgVirtualBase(b)), u32_as_u64(a)).v
    ELSE add_u32(ImgVirtualBase(b), a).v

\* C14 as stated: in every converted image, of either architecture, the
\* data LOAD program header's virtual address and the .data section's
\* address are entry_point rounded up to the next 4096-byte boundary plus
\* the architecture's virtual base, whatever text_size is.
C14_DataLoadFromEntryOnly ==
    Converted =>
        LET b == elf_file.bytes IN
            /\ ImgPhVirtualAddr(b, 2) = ImgBased(b, RoundUp4k(entry))
            /\ ImgShAddr(b, 3) = ImgBased(b, RoundUp4k(entry))

\* C14, amended: in every converted image, of either architecture, the data
\* LOAD program header's virtual address and the .data section's address
\* are the virtual base plus entry_point + (text_size rounded up to a
\* multiple of 4096), the 32-bit sums taken modulo 2^32; the header's
\* physical address is the same without the base.  entry_point itself is
\* not rounded and the result depends on text_size.
C14_DataLoadAddress ==
    Converted =>
        LET b == elf_file.bytes
            a == add_u32(entry, RoundUp4k(ts)).v
        IN  /\ ImgPhVirtualAddr(b, 2) = ImgBased(b, a)
            /\ ImgShAddr(b, 3) = ImgBased(b, a)
            /\ ImgPhPhysicalAddr(b, 2) = Widened(b, a)

\* a converted image whose entry point is not page-aligned and whose text
\* is not empty: rounding the entry and adding the rounded text size differ
C14_Witness ==
    /\ Converted
    /\ entry = <<0, 4097>>
    /\ ts = <<0, 2>>
    /\ ImgPhVirtualAddr(elf_file.bytes, 2) # ImgBased(elf_file.bytes, RoundUp4k(entry))

----------------------------------------------------------------------------
(* C15: the offsets in the headers against the emitted bytes *)

\* the eight buffers of the final concatenation, as emitted
EmittedParts ==
    <<ElfHeader_as_bytes(ElfHeader_new(3, 6, entry, machine_target)),
      Concat([i \in 1..Len(program_headers) |-> ElfProgramHeader_as_bytes(program_headers[i])]),
      Concat([i \in 1..Len(section_headers) |-> ElfSectionHeader_as_bytes(section_headers[i])]),
      Zeros(PAD_SIZE),
      data,
      Concat([i \in 1..Len(elf_sym_tab) |-> ElfSymbolTableEntry_as_bytes(elf_sym_tab[i])]),
      sym_str_tab,
      sh_str_tab>>

\* the byte position in the image at which buffer k starts
RECURSIVE PartStart(_)
PartStart(k) == IF k = 1 THEN 0 ELSE PartStart(k - 1) + Len(EmittedParts[k - 1])

\* C15: for every input that converts successfully, trailing bytes after
\* the symbol table or not, the offsets in the headers are the positions of
\* the regions in the emitted bytes: e_phoff is the header size, e_shoff is
\* header + 3 program headers, text is at main_offset = header + 3 program
\* headers + 6 section headers + 12, data at main_offset + text_size, the
\* retained symbol table at main_offset + text_size + data_size, .symtab
\* right after all carried bytes, .strtab right after .symtab, .shstrtab
\* right after .strtab and ending at the end of the file.
C15_LayoutAgreesWithEmission ==
    Converted =>
        LET b == elf_file.bytes
            T == NatOf(ts)
            D == NatOf(ds)
            hs == IF ImgIs64(b) THEN ELF64_HEADER_SIZE ELSE ELF32_HEADER_SIZE
            phs == IF ImgIs64(b) THEN ELF64_PROGRAM_HEADER_SIZE ELSE ELF32_PROGRAM_HEADER_SIZE
            shs == IF ImgIs64(b) THEN ELF64_SECTION_HEADER_SIZE ELSE ELF32_SECTION_HEADER_SIZE
        IN  /\ b = Concat(EmittedParts)
            /\ ImgPhOff(b) = PartStart(2) /\ PartStart(2) = hs
            /\ ImgShOff(b) = PartStart(3) /\ PartStart(3) = hs + 3 * phs
            /\ PartStart(5) = hs + 3 * phs + 6 * shs + 12
            /\ NatOf(ImgPhOffset(b, 1)) = PartStart(5)
            /\ NatOf(ImgShOffset(b, 2)) = PartStart(5)
            /\ NatOf(ImgPhOffset(b, 2)) = PartStart(5) + T
            /\ NatOf(ImgShOffset(b, 3)) = PartStart(5) + T
            /\ NatOf(ImgPhOffset(b, 3)) = PartStart(5) + T + D
            /\ NatOf(ImgShOffset(b, 4)) = PartStart(6)
            /\ NatOf(ImgShSize(b, 4)) = Len(EmittedParts[6])
            /\ NatOf(ImgShOffset(b, 5)) = PartStart(7)
            /\ NatOf(ImgShSize(b, 5)) = Len(EmittedParts[7])
            /\ NatOf(ImgShOffset(b, 6)) = PartStart(8)
            /\ NatOf(ImgShOffset(b, 6)) + NatOf(ImgShSize(b, 6)) = Len(b)

\* a converted image that carries bytes after the symbol table
C15_Witness ==
    /\ Converted
    /\ NatOf(ts) > 0
    /\ Len(data) > NatOf(ts) + NatOf(ds) + NatOf(ss)

----------------------------------------------------------------------------
(* C16: the cursor of parse_aout_symbols *)

\* parse_aout_symbols has left its loop through the loop condition
ScanEnded ==
    \/ /\ cmd = "Convert"
       /\ pc \in {"aout_syms_to_elf", "section_headers", "assemble", "returned", "done"}
       /\ result.kind \in {"none", "Ok"}
    \/ /\ cmd = "Parse"
       /\ pc = "done"
       /\ exit_status = 0

\* the bytes a terminated record at a cursor occupies: header, name, NUL
RecordBytes(at) == SYM_HEADER_SIZE + (FirstNul(NameWindow(at)) - 1) + 1

\* C16: every decoded record whose name is terminated advances the cursor
\* by the bytes it occupies, 9 + name bytes before the NUL + 1, whatever the
\* name's bytes are (valid UTF-8 or not), so the next record is decoded from
\* the byte after the NUL; and when scanning has ended the cursor is exactly
\* at the end of the range.
C16_RecordScanning ==
    /\ \A k \in 1..Len(syms) :
          WindowHasNul(RecordStart(k)) =>
              AoutSymbol_len(syms[k]) = RecordBytes(RecordStart(k))
    /\ ScanEnded => offset = Len(sym_table_data)

----------------------------------------------------------------------------
(* C17: which symbols reach the ELF symbol table *)

\* 'T' and 't', with the top bit clear and set
TextTypeBytes == {84, 116, 84 + 128, 116 + 128}

\* the decoded symbols that are candidates, by position
Candidates == {k \in 1..Len(syms) : syms[k].header.sym_type \in TextTypeBytes}

\* the names the function entries point at, each with its NUL, in order
EmittedNames ==
    Concat([i \in 1..Len(FunctionEntries) |->
               StringAt(sym_str_tab, NatOf(FunctionEntries[i].name_offset)) \o <<0>>])

\* C17: a decoded symbol is a candidate exactly when its type byte is 'T' or
\* 't', the top bit set or not: the function entries are one fewer than the
\* candidates, each carries the address and the name of a candidate, and
\* the string table holds the names of the entries and nothing else, so no
\* symbol of another type contributes an entry or a name.
C17_TextOnlyFilter ==
    Translated =>
        LET fe == FunctionEntries
            n == Cardinality(Candidates)
        IN  /\ Len(fe) = (IF n >= 1 THEN n - 1 ELSE 0)
            /\ \A i \in 1..Len(fe) :
                  \E k \in Candidates :
                      /\ EntryValue(fe[i]) = syms[k].header.value
                      /\ StringAt(sym_str_tab, NatOf(fe[i].name_offset)) = syms[k].name
            /\ sym_str_tab = <<0>> \o EmittedNames

\* a symbol whose type is 'T' with the top bit set got an entry while a
\* data symbol in the same table got none
C17_Witness ==
    /\ Converted
    /\ \E k \in 1..Len(syms) :
          /\ syms[k].header.sym_type = 68
          /\ \A i \in 1..Len(FunctionEntries) :
                StringAt(sym_str_tab, NatOf(FunctionEntries[i].name_offset)) # syms[k].name
    /\ \E k \in 1..Len(syms) :
          /\ syms[k].header.sym_type = 84 + 128
          /\ \E i \in 1..Len(FunctionEntries) :
                StringAt(sym_str_tab, NatOf(FunctionEntries[i].name_offset)) = syms[k].name
    /\ Len(FunctionEntries) = 1

----------------------------------------------------------------------------
(* C18: the symbol-name string table *)

\* 1 + the lengths, NUL included, of the names of the first i - 1 symbols
RECURSIVE NameStart(_, _)
NameStart(srt, i) == IF i = 1 THEN 1 ELSE NameStart(srt, i - 1) + Len(srt[i - 1].name) + 1

\* C18: after aout_syms_to_elf the string table starts with a zero byte;
\* the i-th function entry's name_offset is the index right after a zero
\* byte at which the name of the i-th sorted text symbol stands, whole and
\* followed by a zero byte; the first entry's name_offset is 1; and the
\* table's length is 1 + the sum of (name length + 1) over the emitted
\* symbols, so it holds no byte of a symbol that was not emitted, the
\* dropped last one included.
C18_NameTableConsistency ==
    Translated =>
        LET fe == FunctionEntries
            srt == StableSorted(FilteredText)
        IN  /\ Len(sym_str_tab) >= 1
            /\ sym_str_tab[1] = 0
            /\ Len(fe) >= 1 => fe[1].name_offset = <<0, 1>>
            /\ \A i \in 1..Len(fe) :
                  LET off == NatOf(fe[i].name_offset)
                      nm == srt[i].name
                  IN  /\ fe[i].name_offset[1] = 0
                      /\ off = NameStart(srt, i)
                      /\ off + Len(nm) + 1 <= Len(sym_str_tab)
                      /\ sym_str_tab[off] = 0
                      /\ SubSeq(sym_str_tab, off + 1, off + Len(nm)) = nm
                      /\ sym_str_tab[off + Len(nm) + 1] = 0
            /\ Len(sym_str_tab) = NameStart(srt, Len(fe) + 1)

\* two emitted names of different lengths, and a dropped last symbol whose
\* name is none of them
C18_Witness ==
    /\ Converted
    /\ Len(FunctionEntries) = 2
    /\ NatOf(FunctionEntries[2].name_offset) = 4
    /\ LET last == StableSorted(FilteredText)[3].name
       IN  \A i \in 1..2 :
             StringAt(sym_str_tab, NatOf(FunctionEntries[i].name_offset)) # last

----------------------------------------------------------------------------
(* C19: 32-bit address arithmetic of the Amd64 target *)

\* VIRTUAL_BASE_AMD64 as u32
VirtualBase32 == u64_as_u32(VIRTUAL_BASE_AMD64)

\* base + entry, entry + rounded text size, and base + that, all below 2^32
AddressSumsFit ==
    /\ ~add_u32(VirtualBase32, entry).ovf
    /\ ~add_u32(entry, RoundUp4k(ts)).ovf
    /\ ~add_u32(VirtualBase32, add_u32(entry, RoundUp4k(ts)).v).ovf

\* C19: in every convert run for the Amd64 target, whatever entry_point and
\* text_size are, the sums 0x8000_0000 + entry_point and 0x8000_0000 +
\* (entry_point + rounded text_size) stay below 2^32: with a non-empty text
\* no run aborts in the address arithmetic, and the text and data addresses
\* in the program and section headers of a written image are the true
\* sums, which are at least the base.
C19_NoAddressOverflow ==
    (cmd = "Convert" /\ machine_target = ElfMachine_Amd64) =>
        /\ AddressSumsFit
        /\ ts # <<0, 0>> =>
              result.detail \notin {"data_load_addr", "program headers", "section headers"}
        /\ Converted =>
              LET b == elf_file.bytes IN
                  /\ le(VirtualBase32, ImgPhVirtualAddr(b, 1))
                  /\ le(VirtualBase32, ImgPhVirtualAddr(b, 2))
                  /\ le(VirtualBase32, ImgShAddr(b, 2))
                  /\ le(VirtualBase32, ImgShAddr(b, 3))

\* what does hold: the sums fit whenever entry_point + rounded text_size is
\* below 0x8000_0000, and then the addresses are the true sums
C19_SumsFitBelowBase ==
    (Converted /\ machine_target = ElfMachine_Amd64
     /\ ~add_u32(entry, RoundUp4k(ts)).ovf
     /\ lt(add_u32(entry, RoundUp4k(ts)).v, VirtualBase32)) =>
        /\ AddressSumsFit
        /\ le(VirtualBase32, ImgPhVirtualAddr(elf_file.bytes, 1))
        /\ le(VirtualBase32, ImgPhVirtualAddr(elf_file.bytes, 2))

----------------------------------------------------------------------------
(* C20: align_4k *)

\* r is the smallest multiple of 4096 that is >= v
IsRoundedUp4k(v, r) ==
    /\ r[2] % 4096 = 0
    /\ le(v, r)
    /\ lt(sub_u32(r, v).v, <<0, 4096>>)

\* C20: for every text_size a convert run applies align_4k to, 0, exact
\* multiples of 4096 and values above 0xFFFF_F000 included, the arithmetic
\* neither underflows nor overflows and the result is the smallest multiple
\* of 4096 that is >= text_size; with text_size = 0 the result is 0 and the
\* run does not abort in the arithmetic.
C20_Align4k ==
    (AoutToElfRan /\ KnownMagic /\ pc # "map_machine") =>
        /\ ~align_4k(ts).ovf
        /\ IsRoundedUp4k(ts, align_4k(ts).v)
        /\ ts = <<0, 0>> =>
              /\ align_4k(ts).v = <<0, 0>>
              /\ result.detail # "data_load_addr"

\* what does hold: the result is right, without underflow or overflow, for
\* text sizes from 1 to 0xFFFF_F000
C20_Align4kInRange ==
    (AoutToElfRan /\ KnownMagic /\ pc # "map_machine"
     /\ ts # <<0, 0>> /\ le(ts, <<65535, 61440>>)) =>
        /\ ~align_4k(ts).ovf
        /\ IsRoundedUp4k(ts, align_4k(ts).v)

----------------------------------------------------------------------------
(* C21: the scanning loop on incomplete tails *)

\* the bytes left in the range at the cursor of the next iteration
BytesLeft == Len(sym_table_data) - offset

\* C21: for every symbol-table range, a tail of 1 to 8 bytes after the last
\* whole record or a bare 9-byte header included, the scanning loop ends
\* normally: no iteration aborts, every iteration finds a whole 9-byte
\* header inside the range, and every decoded record has moved the cursor
\* forward by at least 10.
C21_ScanEndsNormally ==
    /\ result.detail # "parse_sym"
    /\ (pc = "parse_aout_symbols" /\ BytesLeft > 0) => BytesLeft >= SYM_HEADER_SIZE
    /\ \A k \in 1..Len(syms) :
          /\ AoutSymbol_len(syms[k]) >= 10
          /\ RecordStart(k) + SYM_HEADER_SIZE <= Len(sym_table_data)

\* what does hold: every iteration that returns has read its header inside
\* the range and moves the cursor forward by at least 10, so the loop cannot
\* run forever; a bare 9-byte header is decoded with the empty name
C21_CursorAdvances ==
    /\ \A k \in 1..Len(syms) :
          /\ AoutSymbol_len(syms[k]) >= 10
          /\ RecordStart(k) + SYM_HEADER_SIZE <= Len(sym_table_data)
    /\ pc = "parse_aout_symbols" => offset = RecordStart(Len(syms) + 1)
    /\ (result.detail = "parse_sym") => (BytesLeft > 0 /\ BytesLeft < SYM_HEADER_SIZE)

====
